---- MODULE Spec2Model ----
(***************************************************************************)
(* Model of the supplier discovery and scoring pipeline (src/server):      *)
(* price/MOQ normalisation, the lexical scorer, the listing extractor,     *)
(* the filter and rank stage, the concurrent fetch orchestrator in batch   *)
(* and stream mode, the search endpoints with the offline mode, the        *)
(* cached FX resolver and the landed-cost calculator.                      *)
(*                                                                         *)
(* Conventions.                                                            *)
(*  - A text is a sequence of one-character strings.  Characters outside   *)
(*    ASCII are written by their pinyin: "qi" is 起, "mian" 面, "yi" 议,   *)
(*    "ge" 个, "jian" 件, "CNY" the glyph ￥, and so on.                   *)
(*  - A title or tag list is a sequence of phrases; a rule phrase is       *)
(*    "in" the text when it is one of its phrases.  "yuantou_gongchang"    *)
(*    is 源头工厂, "zhichi_OEM" 支持OEM, "maoyi" 贸易, "pifa" 批发.        *)
(*  - An optional value is a sequence: <<>> is None, <<v>> is the value v. *)
(*  - Prices are in hundredths of a yuan; weights, confidence and bonuses  *)
(*    in thousandths, so that a confidence of 1.0 is 1000 and a score of   *)
(*    100.0 is 100000.                                                     *)
(***************************************************************************)
EXTENDS Integers, Sequences, FiniteSets, TLC

None == <<>>

Some(v) == <<v>>

\* Python's truth value of an optional number: None and 0 are both falsy.
Truthy(o) == o # None /\ o[1] # 0

\* Python's `a or b` on optional numbers.
PyOr(a, b) == IF Truthy(a) THEN a ELSE b

Min2(a, b) == IF a <= b THEN a ELSE b

Max2(a, b) == IF a >= b THEN a ELSE b

\* max(lo, min(hi, x)), the clamp scoring.py writes out.
Clamp(x, lo, hi) == Max2(lo, Min2(hi, x))

RECURSIVE SeqSum(_)
SeqSum(s) == IF s = <<>> THEN 0 ELSE Head(s) + SeqSum(Tail(s))

Range(s) == {s[i] : i \in 1..Len(s)}

(***************************************************************************)
(* src/server/utils.py: the numeric/text normaliser.                       *)
(***************************************************************************)
Digits == {"0", "1", "2", "3", "4", "5", "6", "7", "8", "9"}

DigitVal(c) ==
    CASE c = "0" -> 0 [] c = "1" -> 1 [] c = "2" -> 2 [] c = "3" -> 3
      [] c = "4" -> 4 [] c = "5" -> 5 [] c = "6" -> 6 [] c = "7" -> 7
      [] c = "8" -> 8 [] c = "9" -> 9

\* \s of the regular expressions.
IsSpace(c) == c = " "

\* str.strip(): leading and trailing white space removed.
RECURSIVE LStrip(_)
LStrip(t) == IF t # <<>> /\ IsSpace(Head(t)) THEN LStrip(Tail(t)) ELSE t

RECURSIVE RStrip(_)
RStrip(t) ==
    IF t # <<>> /\ IsSpace(t[Len(t)]) THEN RStrip(SubSeq(t, 1, Len(t) - 1)) ELSE t

Strip(t) == RStrip(LStrip(t))

\* str.replace(c, ""): every occurrence of the character removed.
RemoveChar(t, c) == SelectSeq(t, LAMBDA x : x # c)

\* `marker in txt`: the marker occurs as a contiguous run.
IsSubstring(m, t) ==
    \E i \in 1..(Len(t) - Len(m) + 1) : SubSeq(t, i, i + Len(m) - 1) = m

\* The end (exclusive) of the longest run of digits of t that starts at i.
RECURSIVE DigitsEnd(_, _)
DigitsEnd(t, i) ==
    IF i <= Len(t) /\ t[i] \in Digits THEN DigitsEnd(t, i + 1) ELSE i

\* The end (exclusive) of the run of white space of t that starts at i.
RECURSIVE SpaceEnd(_, _)
SpaceEnd(t, i) ==
    IF i <= Len(t) /\ IsSpace(t[i]) THEN SpaceEnd(t, i + 1) ELSE i

\* int() of the digits t[i..j-1].
RECURSIVE IntOf(_, _, _)
IntOf(t, i, j) ==
    IF j <= i THEN 0 ELSE IntOf(t, i, j - 1) * 10 + DigitVal(t[j - 1])

\* [0-9]+(?:\.[0-9]+)? matched greedily at i: the end (exclusive) of the
\* match, or 0 when no digit stands at i.
NumberEnd(t, i) ==
    LET e == DigitsEnd(t, i) IN
    IF e = i THEN 0
    ELSE IF e <= Len(t) /\ t[e] = "." /\ DigitsEnd(t, e + 1) > e + 1
         THEN DigitsEnd(t, e + 1)
         ELSE e

\* float() of the number t[i..j-1], in hundredths (two decimals are kept).
NumberVal(t, i, j) ==
    LET e == DigitsEnd(t, i)
        whole == IntOf(t, i, e) * 100
    IN  IF e = j THEN whole
        ELSE LET n == j - (e + 1) IN
             IF n = 1 THEN whole + 10 * DigitVal(t[e + 1])
             ELSE whole + 10 * DigitVal(t[e + 1]) + DigitVal(t[e + 2])

IsRangeSep(c) == c \in {"-", "~"}

\* A range match that hands out its two numbers smaller first.
RangeAtSorted(t, i) ==
    LET e1 == NumberEnd(t, i) IN
    IF e1 = 0 THEN <<>>
    ELSE LET s1 == SpaceEnd(t, e1) IN
         IF ~(s1 <= Len(t) /\ IsRangeSep(t[s1])) THEN <<>>
         ELSE LET s2 == SpaceEnd(t, s1 + 1)
                  e2 == NumberEnd(t, s2)
              IN  IF e2 = 0 THEN <<>>
                  ELSE <<Min2(NumberVal(t, i, e1), NumberVal(t, s2, e2)),
                         Max2(NumberVal(t, i, e1), NumberVal(t, s2, e2))>>

\* ([0-9]+(?:\.[0-9]+)?)\s*[-~]\s*([0-9]+(?:\.[0-9]+)?) matched at i:
\* <<low, high>>, or <<>> when the pattern does not match there.  The first
\* number cannot be shortened to make the rest match (what follows a shorter
\* number is a digit or a point), so the greedy match is the only one.
RangeAt(t, i) ==
    LET e1 == NumberEnd(t, i) IN
    IF e1 = 0 THEN <<>>
    ELSE LET s1 == SpaceEnd(t, e1) IN
         IF ~(s1 <= Len(t) /\ IsRangeSep(t[s1])) THEN <<>>
         ELSE LET s2 == SpaceEnd(t, s1 + 1)
                  e2 == NumberEnd(t, s2)
              IN  IF e2 = 0 THEN <<>>
                  ELSE <<NumberVal(t, i, e1), NumberVal(t, s2, e2)>>

\* re.search: the match at the leftmost position that has one.
RECURSIVE SearchRange(_, _)
SearchRange(t, i) ==
    IF i > Len(t) THEN <<>>
    ELSE IF RangeAt(t, i) # <<>> THEN RangeAt(t, i)
    ELSE SearchRange(t, i + 1)

\* ([0-9]+(?:\.[0-9]+)?)\s*(?:qi|qibu|yishang)? : the leftmost number; the
\* trailing qualifier is optional and captures nothing.
RECURSIVE SearchSingle(_, _)
SearchSingle(t, i) ==
    IF i > Len(t) THEN <<>>
    ELSE IF NumberEnd(t, i) # 0 THEN <<NumberVal(t, i, NumberEnd(t, i))>>
    ELSE SearchSingle(t, i + 1)

\* PRICE_NEGOTIABLE_MARKERS: 价格面议 and 面议.
PRICE_NEGOTIABLE_MARKERS == << <<"jia", "ge", "mian", "yi">>, <<"mian", "yi">> >>

\* parse_price_range_cn(text): <<price_min, price_max>>, each optional.
parse_price_range_cn(text) ==
    IF text = <<>> THEN <<None, None>>
    ELSE LET txt == RemoveChar(RemoveChar(Strip(text), "CNY"), ",") IN
         IF \E k \in 1..Len(PRICE_NEGOTIABLE_MARKERS) :
                IsSubstring(PRICE_NEGOTIABLE_MARKERS[k], txt)
         THEN <<None, None>>
         ELSE LET m == SearchRange(txt, 1) IN
              IF m # <<>> THEN <<Some(m[1]), Some(m[2])>>
              ELSE LET m2 == SearchSingle(txt, 1) IN
                   IF m2 # <<>> THEN <<Some(m2[1]), None>>
                   ELSE <<None, None>>

\* MOQ, 起订量, 起批量 (re.IGNORECASE folds the Latin label).
MoqLabels ==
    { <<a, b, c>> : a \in {"M", "m"}, b \in {"O", "o"}, c \in {"Q", "q"} }
    \cup { <<"qi", "ding", "liang">>, <<"qi", "pi", "liang">> }

\* 个 件 只 套 箱 袋
MoqUnits == {"ge", "jian", "zhi", "tao", "xiang", "dai"}

\* (?:MOQ|...)\s*([0-9]+) matched at i: <<n>> or <<>>.
LabelledAt(t, i) ==
    IF \E l \in MoqLabels : i + Len(l) - 1 <= Len(t) /\ SubSeq(t, i, i + Len(l) - 1) = l
    THEN LET s == SpaceEnd(t, i + 3)
             e == DigitsEnd(t, s)
         IN  IF e > s THEN <<IntOf(t, s, e)>> ELSE <<>>
    ELSE <<>>

RECURSIVE SearchLabelled(_, _)
SearchLabelled(t, i) ==
    IF i > Len(t) THEN <<>>
    ELSE IF LabelledAt(t, i) # <<>> THEN LabelledAt(t, i)
    ELSE SearchLabelled(t, i + 1)

\* ([0-9]+)\s*(?:unit) matched at i: <<n>> or <<>>.
UnitAt(t, i) ==
    LET e == DigitsEnd(t, i)
        s == SpaceEnd(t, e)
    IN  IF e > i /\ s <= Len(t) /\ t[s] \in MoqUnits THEN <<IntOf(t, i, e)>> ELSE <<>>

RECURSIVE SearchUnit(_, _)
SearchUnit(t, i) ==
    IF i > Len(t) THEN <<>>
    ELSE IF UnitAt(t, i) # <<>> THEN UnitAt(t, i)
    ELSE SearchUnit(t, i + 1)

\* parse_moq_cn(text): the optional minimum order quantity.
parse_moq_cn(text) ==
    IF text = <<>> THEN None
    ELSE LET txt == Strip(text)
             m == SearchLabelled(txt, 1)
         IN  IF m # <<>> THEN m
             ELSE SearchUnit(txt, 1)

(***************************************************************************)
(* src/server/scoring.py: the classifier/scorer.                           *)
(***************************************************************************)
\* A rule: the phrase k and its weight w (thousandths).
Rule(k, w) == [k |-> k, w |-> w]

\* DEFAULT_RULES.  A rule table is what yaml.safe_load gives: a mapping
\* (mapping = TRUE) whose keys may be missing (None), or something that is
\* no mapping (an empty file loads as None, a list as a list).
DEFAULT_RULES ==
    [mapping |-> TRUE,
     threshold |-> Some(600),
     positive |-> << Rule("yuantou_gongchang", 1000), Rule("gongchang_zhigong", 900),
                     Rule("shengchan_jiagong", 800), Rule("ziyou_gongchang", 1000),
                     Rule("zhichi_OEM", 600), Rule("zhichi_ODM", 600),
                     Rule("ke_dingzhi", 400) >>,
     negative |-> << Rule("maoyi", -600), Rule("pifa", -400), Rule("daili", -600) >>,
     audited |-> Some(200),
     years_weight |-> Some(20)]

\* What yaml.safe_load returns for an empty file: None, no mapping.
NotAMapping ==
    [mapping |-> FALSE, threshold |-> None, positive |-> <<>>, negative |-> <<>>,
     audited |-> None, years_weight |-> None]

\* load_rules(): the file's content when it opens and parses, whatever it
\* is; DEFAULT_RULES when open() or the parser raises.
load_rules(file) ==
    IF file.kind = "loaded" THEN file.value ELSE DEFAULT_RULES

\* dict.get(key, default) on an optional entry.
GetOr(o, d) == IF o = None THEN d ELSE o[1]

\* A scorer that takes every rule of a map as fired, present or not.
EveryRule(map, text) == map

\* The rules of a map that fired on the text, in the map's order.
Fired(map, text) == SelectSeq(map, LAMBDA r : r.k \in Range(text))

RECURSIVE Weights(_)
Weights(rs) == IF rs = <<>> THEN <<>> ELSE <<Head(rs).w>> \o Weights(Tail(rs))

RECURSIVE Evidence(_, _)
Evidence(rs, sign) ==
    IF rs = <<>> THEN <<>>
    ELSE << <<sign, Head(rs).k>> >> \o Evidence(Tail(rs), sign)

\* The final score without its clamp.
FinalScoreUnclamped(raw) == raw * 100

\* score = max(0.0, min(1.0, score)) * 100.0
FinalScore(raw) == Clamp(raw, 0, 1000) * 100

\* A confidence that is the clamped sum itself, not shifted into [0, 1].
ConfidenceUnshifted(fit_score) == Clamp(fit_score, 0, 1000)

\* fit_norm = max(0.0, min(1.0, (fit_score + 1.0) / 2.0)), clamped again.
Confidence(fit_score) == Clamp(Clamp((fit_score + 1000) \div 2, 0, 1000), 0, 1000)

\* score_supplier(title, tags, years_active, audited) under the rule table
\* load_rules() returned.  ok = FALSE: rules.get raised (the table is no
\* mapping) and no verdict is returned.
score_supplier(rules, title, tags, years_active, audited) ==
    IF ~rules.mapping
    THEN [ok |-> FALSE]
    ELSE LET text == title \o tags
             pos == Fired(rules.positive, text)
             neg == Fired(rules.negative, text)
             fit_score == SeqSum(Weights(pos)) + SeqSum(Weights(neg))
             audited_bonus == IF audited THEN GetOr(rules.audited, 0) ELSE 0
             years_bonus == GetOr(rules.years_weight, 0) * GetOr(years_active, 0)
             confidence == Confidence(fit_score)
         IN  [ok |-> TRUE,
              is_factory |-> confidence >= GetOr(rules.threshold, 600),
              confidence |-> confidence,
              trust |-> audited_bonus,
              score |-> FinalScore(confidence + audited_bonus + years_bonus),
              evidence |-> Evidence(pos, "+") \o Evidence(neg, "")]

(***************************************************************************)
(* src/server/search_1688.py: extraction, normalisation, filter and rank.  *)
(***************************************************************************)
\* 实地认证, 实力商家
AuditTags == {"shidi_renzheng", "shili_shangjia"}

\* normalize_item(raw) with the rule file in state `file`: Some(item), or
\* None when score_supplier raised.
normalize_item(raw, file) ==
    LET price == parse_price_range_cn(raw.price_text)
        audited == \E t \in AuditTags : t \in Range(raw.tags)
        v == score_supplier(load_rules(file), raw.title, raw.tags, raw.years_active, audited)
    IN  IF ~v.ok THEN None
        ELSE Some([title |-> IF raw.title # <<>> THEN raw.title ELSE raw.url,
                   url |-> raw.url,
                   price_min_cny |-> price[1],
                   price_max_cny |-> price[2],
                   moq |-> parse_moq_cn(raw.moq_text),
                   tags |-> raw.tags,
                   is_factory |-> v.is_factory,
                   is_factory_confidence |-> v.confidence,
                   audited |-> audited,
                   evidence |-> v.evidence,
                   years_active |-> raw.years_active,
                   score |-> v.score])

\* The per-page cap of parse_search_html.
CardCap == 5

\* One anchor of a page: its href and its visible text.
Anchor(href, text) == [href |-> href, text |-> text]

\* The card parse_search_html builds from an accepted anchor.
Card(a) ==
    [title |-> a.text, url |-> a.href, price_text |-> <<>>, moq_text |-> <<>>,
     tags |-> <<>>, years_active |-> None]

\* `'detail' in href and text`
Accepted(a) == "detail" \in Range(a.href) /\ a.text # <<>>

\* parse_search_html(html): the cards of the accepted anchors in document
\* order; the loop breaks once CardCap cards are held.
RECURSIVE ParseAnchors(_, _)
ParseAnchors(html, cards) ==
    IF html = <<>> THEN cards
    ELSE IF Accepted(Head(html))
         THEN LET more == Append(cards, Card(Head(html))) IN
              IF Len(more) >= CardCap THEN more ELSE ParseAnchors(Tail(html), more)
         ELSE ParseAnchors(Tail(html), cards)

\* The extractor without its cap: every accepted anchor becomes a card.
ParseUncapped(html) ==
    LET acc == SelectSeq(html, Accepted) IN [i \in 1..Len(acc) |-> Card(acc[i])]

parse_search_html(html) == ParseAnchors(html, <<>>)

\* [normalize_item(r) for r in raw_cards]: Some(items), or None when one
\* normalize_item raised.
RECURSIVE NormalizeAll(_, _)
NormalizeAll(cards, file) ==
    IF cards = <<>> THEN Some(<<>>)
    ELSE LET h == normalize_item(Head(cards), file) IN
         IF h = None THEN None
         ELSE LET t == NormalizeAll(Tail(cards), file) IN
              IF t = None THEN None ELSE Some(<<h[1]>> \o t[1])

\* The sort key (-(x.score or 0.0), (x.price_min_cny or 1e12)).  1e12
\* exceeds every price of the model, so the second component is the pair
\* <<1, 0>> where the code takes 1e12 and <<0, price>> elsewhere.
SortKey(it) ==
    << -it.score,
       IF Truthy(it.price_min_cny) THEN 0 ELSE 1,
       IF Truthy(it.price_min_cny) THEN it.price_min_cny[1] ELSE 0 >>

\* A comparison that also holds of equal keys: the sort then puts a record
\* before the records of equal key that came earlier.
KeyLessOrEqual(k1, k2) == k1 = k2 \/ k1[1] < k2[1] \/ (k1[1] = k2[1] /\ k1[2] < k2[2])
                            \/ (k1[1] = k2[1] /\ k1[2] = k2[2] /\ k1[3] < k2[3])

\* Tuple comparison k1 < k2.
KeyLess(k1, k2) ==
    \/ k1[1] < k2[1]
    \/ k1[1] = k2[1] /\ k1[2] < k2[2]
    \/ k1[1] = k2[1] /\ k1[2] = k2[2] /\ k1[3] < k2[3]

\* x placed into the sorted s behind every element that is not greater.
RECURSIVE InsertByKey(_, _)
InsertByKey(s, it) ==
    IF s = <<>> THEN <<it>>
    ELSE IF KeyLess(SortKey(it), SortKey(Head(s))) THEN <<it>> \o s
    ELSE <<Head(s)>> \o InsertByKey(Tail(s), it)

\* list.sort(key=...): the stable sort.
RECURSIVE SortFrom(_, _)
SortFrom(s, acc) ==
    IF s = <<>> THEN acc ELSE SortFrom(Tail(s), InsertByKey(acc, Head(s)))

SortItems(s) == SortFrom(s, <<>>)

\* The filter without its audited_only test.
KeepsUnaudited(it, params) ==
    /\ ~(params.only_factories /\ ~it.is_factory)
    /\ ~(params.moq_max # None /\ it.moq # None /\ it.moq[1] > params.moq_max[1])
    /\ ~(params.price_min # None
           /\ GetOr(PyOr(it.price_min_cny, Some(0)), 0) < params.price_min[1])
    /\ ~(params.price_max # None
           /\ GetOr(PyOr(it.price_max_cny, PyOr(it.price_min_cny, Some(0))), 0)
                > params.price_max[1])

\* The five `continue` tests of _apply_filters, negated.
Keeps(it, params) ==
    /\ ~(params.only_factories /\ ~it.is_factory)
    /\ ~(params.audited_only /\ ~it.audited)
    /\ ~(params.moq_max # None /\ it.moq # None /\ it.moq[1] > params.moq_max[1])
    /\ ~(params.price_min # None
           /\ GetOr(PyOr(it.price_min_cny, Some(0)), 0) < params.price_min[1])
    /\ ~(params.price_max # None
           /\ GetOr(PyOr(it.price_max_cny, PyOr(it.price_min_cny, Some(0))), 0)
                > params.price_max[1])

\* The loop of _apply_filters: the kept items in their order.
FilterLoop(items, params) == SelectSeq(items, LAMBDA it : Keeps(it, params))

\* _apply_filters(items, params): the loop, then out.sort(...).
apply_filters(items, params) == SortItems(FilterLoop(items, params))

(***************************************************************************)
(* The fetch orchestrator: search_1688_list (batch) and search_1688_stream *)
(* (stream), one task per page under asyncio.Semaphore(concurrency).       *)
(***************************************************************************)
MaxPages == 2

MaxConcurrency == 2

\* State of config/scoring_rules.yaml: missing (open() raises), invalid
\* (the parser raises), or loaded with the value the parser returned.
RuleFiles ==
    { [kind |-> "missing", value |-> DEFAULT_RULES],
      [kind |-> "invalid", value |-> DEFAULT_RULES],
      [kind |-> "loaded", value |-> NotAMapping] }

\* Pages the remote side may answer with.  An href holds "detail" or not;
\* the text is the anchor's visible text.
PlainAnchor(id) == Anchor(<<"detail", id>>, <<"maozi">>)

FactoryAnchor(id) == Anchor(<<"detail", id>>, <<"yuantou_gongchang", "suliaoping">>)

TraderAnchor(id) == Anchor(<<"detail", id>>, <<"maoyi", "gongsi">>)

NavAnchor(id) == Anchor(<<"login", id>>, <<"denglu">>)

ImageAnchor(id) == Anchor(<<"detail", id>>, <<>>)

\* A long page: more accepted anchors than the cap, a navigation link and
\* an image-only link among them.
LongPage ==
    [i \in 1..(CardCap + 3) |->
        IF i = 2 THEN NavAnchor(ToString(i))
        ELSE IF i = 4 THEN ImageAnchor(ToString(i))
        ELSE IF i % 2 = 1 THEN PlainAnchor(ToString(i))
        ELSE FactoryAnchor(ToString(i))]

Htmls ==
    { <<>>,
      << PlainAnchor("a"), FactoryAnchor("b") >>,
      << NavAnchor("n"), TraderAnchor("c"), ImageAnchor("i"), FactoryAnchor("d") >>,
      LongPage }

\* The SearchParams of a run (the fields the pipeline reads).
SearchQueries ==
    [pages : 0..MaxPages, concurrency : {1, MaxConcurrency},
     only_factories : BOOLEAN, audited_only : BOOLEAN,
     moq_max : {None}, price_min : {None}, price_max : {None}]

\* pages = max(1, params.pages)
NumPages(q) == Max2(1, q.pages)

VARIABLES
    mode,        \* "batch": search_1688_list; "stream": search_1688_stream
    params,      \* the SearchParams of the run
    rulesFile,   \* state of the rule-table file
    pc,          \* per page task: created, fetching, done, raised, consumed
    taskResult,  \* per page: the list the task returned
    sem,         \* the semaphore's value
    fetched,     \* per page: what fetch_page returned, None before and on failure
    completed,   \* finished tasks in completion order, not yet awaited
    awaited,     \* the pages whose result the loop has taken, in order
    results,     \* batch: the accumulated records
    emitting,    \* stream: filtered records of the page being emitted
    events,      \* stream: the item events yielded so far
    run,         \* running, returned, failed, cancelled
    output,      \* batch: the returned list
    attempts,    \* per page: how often fetch_page was called for it
    sent         \* stream: the events event_generator has yielded

\* The filter and rank stage on its own (specification SpecFilter).
VARIABLES
    fItems,      \* the record list handed to the stage
    fQuery,      \* the SearchParams
    fOp,         \* input, filtered, refiltered, batch, stream
    fOnce,       \* _apply_filters(fItems, fQuery), once it was applied
    fOut         \* what the last operation returned

orchVars ==
    <<mode, params, rulesFile, pc, taskResult, sem, fetched, completed, awaited,
      results, emitting, events, run, output, attempts, sent>>

filterVars == <<fItems, fQuery, fOp, fOnce, fOut>>

\* score_supplier on its own (specification SpecScore).
VARIABLES
    sInput,      \* title, tags, years_active, audited and the rule table
    sVerdict     \* None before the call, then what score_supplier gave

\* The FX resolver (specification SpecFx).
VARIABLES
    now,         \* time.time(), in seconds
    ticks,       \* how often the clock has advanced
    cache,       \* the cache file: exists, mtime, and the rate it parses to
    fx           \* per request of get_cny_rub_rate: its position and locals

scoreVars == <<sInput, sVerdict>>

fxVars == <<now, ticks, cache, fx>>

\* parse_price_range_cn on its own (specification SpecParse).
VARIABLES
    pInput,      \* the price string and, for a rendered range, its two numbers
    pOut         \* None before the call, then what parse_price_range_cn gave

\* The landed-cost calculator (specification SpecDdp).
VARIABLES
    dReq,        \* the DDPInput
    dPc,         \* received, rejected, resolved, done, failed
    dRate,       \* the resolved rate, once get_cny_rub_rate returned
    dResult      \* None, then the DDPResult

\* The two search endpoints of the API (specification SpecApi).
VARIABLES
    aReq,        \* the request: route and query parameters
    aPc,         \* received, rejected, accepted, running, blocked, crashed, done
    aParams,     \* the SearchParams the endpoint built
    aSem,        \* the semaphore's initial value, once it was made
    aFetches,    \* network fetches performed for the request
    aOut         \* the records delivered

parseVars == <<pInput, pOut>>

ddpVars == <<dReq, dPc, dRate, dResult>>

apiVars == <<aReq, aPc, aParams, aSem, aFetches, aOut>>

vars == <<orchVars, filterVars, scoreVars, fxVars, parseVars, ddpVars, apiVars>>

\* The price parser at rest.
ParseIdle == pInput = <<>> /\ pOut = <<>>

\* The landed-cost calculator at rest.
DdpIdle == dReq = <<>> /\ dPc = "idle" /\ dRate = <<>> /\ dResult = <<>>

\* The API endpoints at rest.
ApiIdle ==
    /\ aReq = <<>>
    /\ aPc = "idle"
    /\ aParams = <<>>
    /\ aSem = 0
    /\ aFetches = 0
    /\ aOut = <<>>

\* The scorer at rest.
ScoreIdle == sInput = <<>> /\ sVerdict = <<>>

\* The FX resolver at rest.
FxIdle == now = 0 /\ ticks = 0 /\ cache = <<>> /\ fx = <<>>

\* The filter stage at rest, while another component is looked at.
FilterIdle ==
    /\ fItems = <<>>
    /\ fQuery = <<>>
    /\ fOp = "idle"
    /\ fOnce = <<>>
    /\ fOut = <<>>

\* The orchestrator at rest.
OrchIdle ==
    /\ mode = "idle"
    /\ params = <<>>
    /\ rulesFile = <<>>
    /\ pc = <<>>
    /\ taskResult = <<>>
    /\ sem = 0
    /\ fetched = <<>>
    /\ completed = <<>>
    /\ awaited = <<>>
    /\ results = <<>>
    /\ emitting = <<>>
    /\ events = <<>>
    /\ run = "idle"
    /\ output = <<>>
    /\ attempts = <<>>
    /\ sent = <<>>

PageIds == 1..NumPages(params)

InFlight == {p \in PageIds : pc[p] = "fetching"}

Init ==
    /\ mode \in {"batch", "stream"}
    /\ params \in SearchQueries
    /\ rulesFile \in RuleFiles
    /\ pc = [p \in 1..NumPages(params) |-> "created"]
    /\ taskResult = [p \in 1..NumPages(params) |-> <<>>]
    /\ sem = params.concurrency
    /\ fetched = [p \in 1..NumPages(params) |-> None]
    /\ completed = <<>>
    /\ awaited = <<>>
    /\ results = <<>>
    /\ emitting = <<>>
    /\ events = <<>>
    /\ run = "running"
    /\ output = <<>>
    /\ attempts = [p \in 1..NumPages(params) |-> 0]
    /\ sent = <<>>
    /\ FilterIdle /\ ScoreIdle /\ FxIdle /\ ParseIdle /\ DdpIdle /\ ApiIdle

\* A semaphore that lets one task too many through.
CanAcquireOffByOne(value) == value >= 0

\* Semaphore.acquire() succeeds without waiting exactly when value > 0.
CanAcquire(value) == value > 0

\* An event of the stream endpoint: {"event": "status", "data": ...}.
StatusEvent(data) == <<"status", data>>

\* {"event": evt["type"], "data": evt["data"]} for an item of the search.
ItemEvent(record) == <<"item", record>>

\* The page tasks exist: batch mode makes them when it is called, the
\* stream once event_generator has yielded "start" and iterates the search.
Started == mode = "batch" \/ sent # <<>>

\* event_generator begins: `yield {"event": "status", "data": "start"}`.
StreamStart ==
    /\ mode = "stream" /\ run = "running"
    /\ sent = <<>>
    /\ sent' = <<StatusEvent("start")>>
    /\ UNCHANGED <<mode, params, rulesFile, attempts, pc, taskResult, sem, fetched,
                   completed, awaited, results, emitting, events, run, output>>
    /\ UNCHANGED <<filterVars, scoreVars, fxVars, parseVars, ddpVars, apiVars>>

\* `async with sem:` entered by the task of page p; the task then suspends
\* in fetch_page.
Acquire(p) ==
    /\ Started
    /\ pc[p] = "created"
    /\ CanAcquire(sem)
    /\ sem' = sem - 1
    /\ pc' = [pc EXCEPT ![p] = "fetching"]
    /\ attempts' = [attempts EXCEPT ![p] = @ + 1]
    /\ UNCHANGED <<mode, params, rulesFile, taskResult, fetched, completed, awaited,
                   results, emitting, events, run, output, sent>>
    /\ UNCHANGED <<filterVars, scoreVars, fxVars, parseVars, ddpVars, apiVars>>

\* A task that goes back to its start when its fetch failed.
RetryAfterFailedFetch == "created"

\* Where `except Exception: return []` leaves the task: finished.
TaskAfterFailedFetch == "done"

\* fetch_page raised (timeout, 403/429, non-2xx): `except Exception:
\* return []`, and the semaphore is released on the way out.
FetchFailed(p) ==
    /\ pc[p] = "fetching"
    /\ taskResult' = [taskResult EXCEPT ![p] = <<>>]
    /\ pc' = [pc EXCEPT ![p] = TaskAfterFailedFetch]
    /\ sem' = sem + 1
    /\ completed' = Append(completed, p)
    /\ UNCHANGED <<mode, params, rulesFile, attempts, fetched, awaited, results, emitting,
                   events, run, output, sent>>
    /\ UNCHANGED <<filterVars, scoreVars, fxVars, parseVars, ddpVars, apiVars>>

\* What the task of a page returns once fetch_page gave `html`: the
\* normalised cards, or None when normalize_item raised (outside the try).
TaskBody(html, file) == NormalizeAll(parse_search_html(html), file)

\* fetch_page returned html: parse, normalise, return; the semaphore is
\* released whether the body returned or raised.
FetchReturned(p) ==
    /\ pc[p] = "fetching"
    /\ \E html \in Htmls :
         LET r == TaskBody(html, rulesFile) IN
         /\ taskResult' = [taskResult EXCEPT ![p] = IF r = None THEN <<>> ELSE r[1]]
         /\ pc' = [pc EXCEPT ![p] = IF r = None THEN "raised" ELSE "done"]
         /\ fetched' = [fetched EXCEPT ![p] = Some(html)]
    /\ sem' = sem + 1
    /\ completed' = Append(completed, p)
    /\ UNCHANGED <<mode, params, rulesFile, attempts, awaited, results, emitting, events,
                   run, output, sent>>
    /\ UNCHANGED <<filterVars, scoreVars, fxVars, parseVars, ddpVars, apiVars>>

\* An iteration that hands out the task that finished last.
LatestCompleted(queue) == queue[Len(queue)]

\* asyncio.as_completed: the next result is that of the task that finished
\* earliest among those not yet handed out.
NextCompleted(queue) == Head(queue)

\* Batch: `batch = await coro; results.extend(batch)` for the next task in
\* completion order; the task's exception is raised by the await.
ConsumeBatch ==
    /\ mode = "batch" /\ run = "running"
    /\ completed # <<>>
    /\ LET p == NextCompleted(completed) IN
         /\ completed' = SelectSeq(completed, LAMBDA x : x # p)
         /\ IF pc[p] = "raised"
            THEN /\ run' = "failed"
                 /\ UNCHANGED <<results, pc, awaited>>
            ELSE /\ results' = results \o taskResult[p]
                 /\ pc' = [pc EXCEPT ![p] = "consumed"]
                 /\ awaited' = Append(awaited, p)
                 /\ UNCHANGED run
    /\ UNCHANGED <<mode, params, rulesFile, attempts, taskResult, sem, fetched, emitting,
                   events, output, sent>>
    /\ UNCHANGED <<filterVars, scoreVars, fxVars, parseVars, ddpVars, apiVars>>

\* The tail of search_1688_list: _apply_filters, then results.sort.
BatchRank(items, q) == SortItems(apply_filters(items, q))

\* Batch: every task was awaited; filter, sort, return.
ReturnBatch ==
    /\ mode = "batch" /\ run = "running"
    /\ \A p \in PageIds : pc[p] = "consumed"
    /\ output' = BatchRank(results, params)
    /\ run' = "returned"
    /\ UNCHANGED <<mode, params, rulesFile, attempts, pc, taskResult, sem, fetched, completed,
                   awaited, results, emitting, events, sent>>
    /\ UNCHANGED <<filterVars, scoreVars, fxVars, parseVars, ddpVars, apiVars>>

\* A stream that emits the records of a page without filtering them.
StreamPageUnfiltered(batch, q) == batch

\* What stream mode emits for one completed page, in order.
StreamPage(batch, q) == apply_filters(batch, q)

\* Stream: `batch = await coro` for the next task in completion order and
\* `_apply_filters(batch, params)` of that page.
ConsumeStream ==
    /\ mode = "stream" /\ run = "running"
    /\ emitting = <<>>
    /\ completed # <<>>
    /\ LET p == NextCompleted(completed) IN
         /\ completed' = SelectSeq(completed, LAMBDA x : x # p)
         /\ IF pc[p] = "raised"
            THEN /\ run' = "failed"
                 /\ UNCHANGED <<emitting, pc, awaited>>
            ELSE /\ emitting' = StreamPage(taskResult[p], params)
                 /\ pc' = [pc EXCEPT ![p] = "consumed"]
                 /\ awaited' = Append(awaited, p)
                 /\ UNCHANGED run
    /\ UNCHANGED <<mode, params, rulesFile, attempts, taskResult, sem, fetched, results,
                   events, output, sent>>
    /\ UNCHANGED <<filterVars, scoreVars, fxVars, parseVars, ddpVars, apiVars>>

\* Stream: `yield {"type": "item", ...}` of the next record of the page,
\* which event_generator passes on as an event of its own.
YieldItem ==
    /\ mode = "stream" /\ run = "running"
    /\ emitting # <<>>
    /\ events' = Append(events, Head(emitting))
    /\ sent' = Append(sent, ItemEvent(Head(emitting)))
    /\ emitting' = Tail(emitting)
    /\ UNCHANGED <<mode, params, rulesFile, attempts, pc, taskResult, sem, fetched, completed,
                   awaited, results, run, output>>
    /\ UNCHANGED <<filterVars, scoreVars, fxVars, parseVars, ddpVars, apiVars>>

\* An event_generator that ends without its closing event.
LeftOpen(evts) == evts

\* `yield {"event": "status", "data": "done"}` after the `async for`.
Closed(evts) == Append(evts, StatusEvent("done"))

\* Stream: the loop is over, the generator ends, and event_generator
\* yields "done".
EndStream ==
    /\ mode = "stream" /\ run = "running"
    /\ emitting = <<>>
    /\ \A p \in PageIds : pc[p] = "consumed"
    /\ run' = "returned"
    /\ sent' = Closed(sent)
    /\ UNCHANGED <<mode, params, rulesFile, attempts, pc, taskResult, sem, fetched, completed,
                   awaited, results, emitting, events, output>>
    /\ UNCHANGED <<filterVars, scoreVars, fxVars, parseVars, ddpVars, apiVars>>

\* The request is cancelled while a fetch is in flight: CancelledError is
\* raised at the `await coro` of the loop and leaves search_1688_list (no
\* list is returned) or closes the generator of search_1688_stream (no
\* further event is yielded).  The page tasks are not awaited any more.
Cancel ==
    /\ run = "running"
    /\ InFlight # {}
    /\ run' = "cancelled"
    /\ UNCHANGED <<mode, params, rulesFile, attempts, pc, taskResult, sem, fetched,
                   completed, awaited, results, emitting, events, output, sent>>
    /\ UNCHANGED <<filterVars, scoreVars, fxVars, parseVars, ddpVars, apiVars>>

Next ==
    \/ StreamStart
    \/ \E p \in PageIds : Acquire(p)
    \/ \E p \in PageIds : FetchFailed(p)
    \/ \E p \in PageIds : FetchReturned(p)
    \/ ConsumeBatch
    \/ ReturnBatch
    \/ ConsumeStream
    \/ YieldItem
    \/ EndStream
    \/ Cancel

Spec == Init /\ [][Next]_vars

\* The step of ConsumeStream, told by what it does to the queue of finished
\* tasks: the stream takes the next one.
StreamTakesNext ==
    /\ mode = "stream" /\ run = "running"
    /\ emitting = <<>>
    /\ completed # <<>>
    /\ completed' = Tail(completed)

\* The step of ReturnBatch, told by what it does to the run: it returns.
BatchReturns ==
    /\ mode = "batch" /\ run = "running"
    /\ \A p \in PageIds : pc[p] = "consumed"
    /\ run' = "returned"

\* The scheduling of the event loop: a page task that can take a permit
\* does, a fetch in flight returns or fails, and the consuming loop and the
\* generators go on whenever they can.  A cancellation may or may not come.
Fairness ==
    /\ WF_vars(StreamStart)
    /\ \A p \in 1..(MaxPages + 1) :
          /\ WF_vars(p \in PageIds /\ Acquire(p))
          /\ WF_vars(p \in PageIds /\ (FetchFailed(p) \/ FetchReturned(p)))
    /\ WF_vars(ConsumeBatch)
    /\ WF_run(BatchReturns)
    /\ WF_completed(StreamTakesNext)
    /\ WF_vars(YieldItem)
    /\ WF_vars(EndStream)

SpecLive == Spec /\ Fairness

(***************************************************************************)
(* The filter and rank stage applied to record lists (SpecFilter): the     *)
(* records are what normalize_item makes of raw candidates, the queries    *)
(* what SearchParams admits.                                               *)
(***************************************************************************)
MaxItems == 2

\* (title, tags) of the raw candidates: a plain listing, a factory, an
\* audited factory (实地认证).
RawNames ==
    { << <<"maozi">>, <<>> >>,
      << <<"yuantou_gongchang">>, <<>> >>,
      << <<"yuantou_gongchang">>, <<"shidi_renzheng">> >> }

\* (price_text, moq_text) of the raw candidates: nothing; "0" with
\* "MOQ9"; "5"; the reversed range "5-0" with "3 ge" (3 个).
RawTexts ==
    { << <<>>, <<>> >>,
      << <<"0">>, <<"M", "O", "Q", "9">> >>,
      << <<"5">>, <<>> >>,
      << <<"5", "-", "0">>, <<"3", " ", "ge">> >> }

RawPool ==
    { [title |-> n[1], url |-> <<"detail">>, price_text |-> t[1], moq_text |-> t[2],
       tags |-> n[2], years_active |-> None] : n \in RawNames, t \in RawTexts }

\* The records: normalize_item of a raw candidate, under the built-in rules.
ItemPool == { normalize_item(r, [kind |-> "missing", value |-> DEFAULT_RULES])[1] : r \in RawPool }

ItemLists == UNION { [1..n -> ItemPool] : n \in 0..MaxItems }

\* The filter settings drawn: each flag, an MOQ bound of 5, price bounds
\* of 3 yuan.
FilterQueries ==
    [only_factories : BOOLEAN, audited_only : BOOLEAN,
     moq_max : {None, Some(5)}, price_min : {None, Some(300)},
     price_max : {None, Some(300)}]

InitFilter ==
    /\ fItems \in ItemLists
    /\ fQuery \in FilterQueries
    /\ fOp = "input"
    /\ fOnce = <<>>
    /\ fOut = <<>>
    /\ OrchIdle /\ ScoreIdle /\ FxIdle /\ ParseIdle /\ DdpIdle /\ ApiIdle

\* _apply_filters(items, params)
ApplyFilter ==
    /\ fOp = "input"
    /\ fOut' = apply_filters(fItems, fQuery)
    /\ fOnce' = fOut'
    /\ fOp' = "filtered"
    /\ UNCHANGED <<fItems, fQuery>>
    /\ UNCHANGED <<orchVars, scoreVars, fxVars, parseVars, ddpVars, apiVars>>

\* _apply_filters applied to its own result.
ReapplyFilter ==
    /\ fOp = "filtered"
    /\ fOut' = apply_filters(fOut, fQuery)
    /\ fOp' = "refiltered"
    /\ UNCHANGED <<fItems, fQuery, fOnce>>
    /\ UNCHANGED <<orchVars, scoreVars, fxVars, parseVars, ddpVars, apiVars>>

\* The tail of search_1688_list on the collected records.
RankBatch ==
    /\ fOp = "input"
    /\ fOut' = BatchRank(fItems, fQuery)
    /\ fOp' = "batch"
    /\ UNCHANGED <<fItems, fQuery, fOnce>>
    /\ UNCHANGED <<orchVars, scoreVars, fxVars, parseVars, ddpVars, apiVars>>

\* What search_1688_stream emits for one page's records.
EmitPage ==
    /\ fOp = "input"
    /\ fOut' = StreamPage(fItems, fQuery)
    /\ fOp' = "stream"
    /\ UNCHANGED <<fItems, fQuery, fOnce>>
    /\ UNCHANGED <<orchVars, scoreVars, fxVars, parseVars, ddpVars, apiVars>>

NextFilter == ApplyFilter \/ ReapplyFilter \/ RankBatch \/ EmitPage

SpecFilter == InitFilter /\ [][NextFilter]_vars

(***************************************************************************)
(* score_supplier applied to bounded inputs (SpecScore).                   *)
(***************************************************************************)
MaxTitleLen == 2

MaxYears == 3

ScorePhrases == {"yuantou_gongchang", "zhichi_OEM", "maoyi", "pifa", "maozi"}

ScoreTitles == UNION { [1..n -> ScorePhrases] : n \in 0..MaxTitleLen }

ScoreTags == { <<>>, <<"zhichi_OEM">>, <<"pifa", "daili">> }

ScoreYears == {None} \cup { Some(y) : y \in (-MaxYears)..MaxYears }

\* A table with weights far outside [-1, 1].
HeavyRules ==
    [mapping |-> TRUE, threshold |-> Some(900),
     positive |-> << Rule("maozi", 5000) >>, negative |-> << Rule("pifa", -5000) >>,
     audited |-> Some(3000), years_weight |-> Some(1000)]

\* A table whose trust weights are negative.
PenaltyRules ==
    [mapping |-> TRUE, threshold |-> Some(0),
     positive |-> << Rule("zhichi_OEM", 200) >>, negative |-> << Rule("maoyi", -200) >>,
     audited |-> Some(-3000), years_weight |-> Some(-1000)]

\* The mapping {}: every key missing.
EmptyRules ==
    [mapping |-> TRUE, threshold |-> None, positive |-> <<>>, negative |-> <<>>,
     audited |-> None, years_weight |-> None]

RuleTables == {DEFAULT_RULES, HeavyRules, PenaltyRules, EmptyRules, NotAMapping}

InitScore ==
    /\ sInput \in [title : ScoreTitles, tags : ScoreTags, years_active : ScoreYears,
                   audited : BOOLEAN, rules : RuleTables]
    /\ sVerdict = None
    /\ OrchIdle /\ FilterIdle /\ FxIdle /\ ParseIdle /\ DdpIdle /\ ApiIdle

\* One call of score_supplier.
Score ==
    /\ sVerdict = None
    /\ sVerdict' = Some(score_supplier(sInput.rules, sInput.title, sInput.tags,
                                       sInput.years_active, sInput.audited))
    /\ UNCHANGED sInput
    /\ UNCHANGED <<orchVars, filterVars, fxVars, parseVars, ddpVars, apiVars>>

NextScore == Score

SpecScore == InitScore /\ [][NextScore]_vars

(***************************************************************************)
(* src/server/fx.py: the cached FX resolver (SpecFx).                      *)
(***************************************************************************)
CACHE_TTL_SEC == 3600

MaxRequests == 2

MaxTicks == 2

\* Rates the remote source may answer with (hundredths).
RemoteRates == {1250, 1300}

\* The clock advances by a second or by the length of the TTL.
TickSteps == {1, CACHE_TTL_SEC}

NoFile == [exists |-> FALSE, mtime |-> 0, rate |-> None]

\* A cache whose entry expires one second early: at the age of the TTL.
LoadExpiringEarly(c, t) ==
    IF ~c.exists THEN None
    ELSE IF t - c.mtime >= CACHE_TTL_SEC THEN None
    ELSE c.rate

\* load_cached_rate(): None when the file is missing, older than the TTL,
\* or does not parse to a rate (the except branch).
load_cached_rate(c, t) ==
    IF ~c.exists THEN None
    ELSE IF t - c.mtime > CACHE_TTL_SEC THEN None
    ELSE c.rate

\* A store that leaves a fresh entry alone: the first write wins.
SaveUnlessFresh(rate, t) ==
    IF cache.exists /\ cache.rate # None /\ t - cache.mtime <= CACHE_TTL_SEC
    THEN cache
    ELSE [exists |-> TRUE, mtime |-> t, rate |-> Some(rate)]

\* save_cached_rate(rate): the file rewritten at time t.
save_cached_rate(rate, t) == [exists |-> TRUE, mtime |-> t, rate |-> Some(rate)]

FxRequests == 1..MaxRequests

\* A request before its call and after its caller took the outcome.  calls
\* counts the remote requests sent, reads the look-ups of the cache file,
\* err names the exception the call ended with.
FxRest ==
    [pc |-> "idle", source |-> "cbr", manual |-> None, calls |-> 0, reads |-> 0,
     response |-> None, ret |-> None, err |-> "none"]

InitFx ==
    /\ now = 0
    /\ ticks = 0
    /\ cache \in { NoFile,
                   [exists |-> TRUE, mtime |-> 0, rate |-> Some(1100)],
                   [exists |-> TRUE, mtime |-> 0, rate |-> None] }
    /\ fx = [r \in FxRequests |-> FxRest]
    /\ OrchIdle /\ FilterIdle /\ ScoreIdle /\ ParseIdle /\ DdpIdle /\ ApiIdle

\* A resolver that looks into the cache before it looks at the source.
CacheBeforeManual(source, manual, c, t) ==
    LET base == [FxRest EXCEPT !.source = source, !.manual = manual]
        cached == load_cached_rate(c, t)
    IN  IF cached # None
        THEN [base EXCEPT !.pc = "returned", !.ret = cached, !.reads = 1]
        ELSE IF source = "manual"
             THEN IF manual = None
                  THEN [base EXCEPT !.pc = "error", !.err = "ValueError", !.reads = 1]
                  ELSE [base EXCEPT !.pc = "returned", !.ret = manual, !.reads = 1]
             ELSE [base EXCEPT !.pc = "fetching", !.calls = 1, !.reads = 1]

\* get_cny_rub_rate(source, manual) up to its first await or its return,
\* with the cache file c at time t: the frame of the call.
get_cny_rub_rate(source, manual, c, t) ==
    LET base == [FxRest EXCEPT !.source = source, !.manual = manual] IN
    IF source = "manual"
    THEN IF manual = None
         THEN [base EXCEPT !.pc = "error", !.err = "ValueError"]
         ELSE [base EXCEPT !.pc = "returned", !.ret = manual]
    ELSE LET cached == load_cached_rate(c, t) IN
         IF cached # None
         THEN [base EXCEPT !.pc = "returned", !.ret = cached, !.reads = 1]
         ELSE [base EXCEPT !.pc = "fetching", !.calls = 1, !.reads = 1]

\* get_cny_rub_rate(source, manual) is called: the manual branch, the
\* cache look-up, and the remote request being sent.
FxCall(r) ==
    /\ fx[r].pc = "idle"
    /\ \E source \in {"cbr", "manual"}, manual \in {None, Some(1200)} :
         fx' = [fx EXCEPT ![r] = get_cny_rub_rate(source, manual, cache, now)]
    /\ UNCHANGED <<now, ticks, cache>>
    /\ UNCHANGED <<orchVars, filterVars, scoreVars, parseVars, ddpVars, apiVars>>

\* What the remote side may answer: the daily sheet with the CNY entry at
\* a nominal of 10 (value in hundredths of a rouble), an HTTP error, or a
\* sheet the CNY entry cannot be read from.
RemoteAnswers ==
    { [status |-> 200, cny |-> TRUE, nominal |-> 10, value |-> 10 * v] : v \in RemoteRates }
    \cup { [status |-> 500, cny |-> FALSE, nominal |-> 1, value |-> 0],
           [status |-> 200, cny |-> FALSE, nominal |-> 1, value |-> 0] }

\* fetch_cbr_cny_rub_rate() on the answer a: value / nominal, or the
\* exception raised (rate 0 stands for "no rate").
fetch_cbr_cny_rub_rate(a) ==
    IF a.status # 200 THEN [rate |-> 0, err |-> "HTTPStatusError"]
    ELSE IF ~a.cny THEN [rate |-> 0, err |-> "RuntimeError"]
    ELSE [rate |-> a.value \div a.nominal, err |-> "none"]

\* The remote source answers the request of r.
FxRespond(r) ==
    /\ fx[r].pc = "fetching"
    /\ fx[r].response = None
    /\ \E a \in RemoteAnswers :
         LET got == fetch_cbr_cny_rub_rate(a) IN
         fx' = [fx EXCEPT ![r].response = Some(got.rate), ![r].err = got.err]
    /\ UNCHANGED <<now, ticks, cache>>
    /\ UNCHANGED <<orchVars, filterVars, scoreVars, parseVars, ddpVars, apiVars>>

\* A resolver that answers a failed fetch with whatever the cache file
\* still holds.
ResumeWithStale(f, c, t) ==
    IF f.response[1] = 0
    THEN IF c.exists /\ c.rate # None
         THEN <<[f EXCEPT !.pc = "returned", !.ret = c.rate], c>>
         ELSE <<[f EXCEPT !.pc = "error"], c>>
    ELSE <<[f EXCEPT !.pc = "returned", !.ret = f.response],
           save_cached_rate(f.response[1], t)>>

\* get_cny_rub_rate after its await: the exception of the fetch goes to
\* the caller; a rate is saved and returned.  <<frame, cache file>>.
ResumeAfterFetch(f, c, t) ==
    IF f.response[1] = 0
    THEN <<[f EXCEPT !.pc = "error"], c>>
    ELSE <<[f EXCEPT !.pc = "returned", !.ret = f.response],
           save_cached_rate(f.response[1], t)>>

\* fetch_cbr_cny_rub_rate returns or raises in the request r.
FxResume(r) ==
    /\ fx[r].pc = "fetching"
    /\ fx[r].response # None
    /\ LET after == ResumeAfterFetch(fx[r], cache, now) IN
         /\ fx' = [fx EXCEPT ![r] = after[1]]
         /\ cache' = after[2]
    /\ UNCHANGED <<now, ticks>>
    /\ UNCHANGED <<orchVars, filterVars, scoreVars, parseVars, ddpVars, apiVars>>

\* The caller has the outcome; the slot serves the next request.
FxDone(r) ==
    /\ fx[r].pc \in {"returned", "error"}
    /\ fx' = [fx EXCEPT ![r] = FxRest]
    /\ UNCHANGED <<now, ticks, cache>>
    /\ UNCHANGED <<orchVars, filterVars, scoreVars, parseVars, ddpVars, apiVars>>

\* Time passes.
FxTick ==
    /\ ticks < MaxTicks
    /\ \E d \in TickSteps : now' = now + d
    /\ ticks' = ticks + 1
    /\ UNCHANGED <<cache, fx>>
    /\ UNCHANGED <<orchVars, filterVars, scoreVars, parseVars, ddpVars, apiVars>>

NextFx ==
    \/ \E r \in FxRequests : FxCall(r)
    \/ \E r \in FxRequests : FxRespond(r)
    \/ \E r \in FxRequests : FxResume(r)
    \/ \E r \in FxRequests : FxDone(r)
    \/ FxTick

SpecFx == InitFx /\ [][NextFx]_vars

(***************************************************************************)
(* parse_price_range_cn applied to written-out ranges (SpecParse): the     *)
(* price string is what a listing shows for the two numbers a and b.       *)
(***************************************************************************)
MaxWhole == 10

\* The character of a digit.
DigitChar(d) == <<"0", "1", "2", "3", "4", "5", "6", "7", "8", "9">>[d + 1]

\* The decimal digits of n.
RECURSIVE DecDigits(_)
DecDigits(n) ==
    IF n < 10 THEN <<DigitChar(n)>> ELSE Append(DecDigits(n \div 10), DigitChar(n % 10))

\* A whole number as listings write it: thousands are set off by a comma.
WriteWhole(n) ==
    IF n < 1000 THEN DecDigits(n)
    ELSE DecDigits(n \div 1000) \o <<",">>
         \o <<DigitChar((n \div 100) % 10), DigitChar((n \div 10) % 10), DigitChar(n % 10)>>

\* A price: its whole part and its decimals as written (none, one or two).
PriceNumbers ==
    [whole : (0..MaxWhole) \cup {1250},
     frac : {<<>>, <<5>>, <<0, 5>>, <<2, 0>>}]

WriteNumber(n) ==
    IF n.frac = <<>> THEN WriteWhole(n.whole)
    ELSE WriteWhole(n.whole) \o <<".">> \o [i \in 1..Len(n.frac) |-> DigitChar(n.frac[i])]

\* The price in hundredths.
ValueOf(n) ==
    n.whole * 100
      + (IF n.frac = <<>> THEN 0
         ELSE IF Len(n.frac) = 1 THEN 10 * n.frac[1]
         ELSE 10 * n.frac[1] + n.frac[2])

\* The range "a-b" as a listing shows it: an optional ￥, optional blanks
\* around the separator, an optional unit behind (/件).
WriteRange(a, b, sep, glyph, blanks, unit) ==
    (IF glyph THEN <<"CNY">> ELSE <<>>)
      \o WriteNumber(a)
      \o (IF blanks THEN <<" ">> ELSE <<>>) \o <<sep>> \o (IF blanks THEN <<" ">> ELSE <<>>)
      \o WriteNumber(b)
      \o (IF unit THEN <<"/", "jian">> ELSE <<>>)

InitParse ==
    /\ \E a \in PriceNumbers, b \in PriceNumbers, sep \in {"-", "~"},
          glyph \in BOOLEAN, blanks \in BOOLEAN, unit \in BOOLEAN :
         pInput = [text |-> WriteRange(a, b, sep, glyph, blanks, unit),
                   low |-> ValueOf(a), high |-> ValueOf(b)]
    /\ pOut = None
    /\ OrchIdle /\ FilterIdle /\ ScoreIdle /\ FxIdle /\ DdpIdle /\ ApiIdle

\* One call of parse_price_range_cn.
ParsePrice ==
    /\ pOut = None
    /\ pOut' = Some(parse_price_range_cn(pInput.text))
    /\ UNCHANGED pInput
    /\ UNCHANGED <<orchVars, filterVars, scoreVars, fxVars, ddpVars, apiVars>>

NextParse == ParsePrice

SpecParse == InitParse /\ [][NextParse]_vars

(***************************************************************************)
(* src/server/ddp.py: the landed-cost calculator (SpecDdp).                *)
(*                                                                         *)
(* CNY amounts and the rate are in tenths, RUB inputs in kopecks,          *)
(* percentages are whole percents.  A RUB amount inside the calculation    *)
(* is the pair <<roubles, millionths>> with 0 <= millionths < 10^6: exact  *)
(* for every product the calculation forms, and within TLC's integers.     *)
(* The code computes in binary floating point; its results differ from     *)
(* the exact ones by far less than the distance of any non-tie to a tie,   *)
(* so round(x, 2) is the exact rounding except at a tie (x.xx5), where     *)
(* either neighbour can come out.                                          *)
(***************************************************************************)
Million == 1000000

\* The amount of k kopecks.
Kopecks(k) == <<k \div 100, (k % 100) * 10000>>

\* x + y
Plus(x, y) ==
    <<x[1] + y[1] + ((x[2] + y[2]) \div Million), (x[2] + y[2]) % Million>>

\* x * (pct / 100.0), for an x with at most four decimals.
Percent(x, pct) ==
    LET r == x[1] * pct
        m == (x[2] * pct) \div 100
    IN  Plus(<<r \div 100, (r % 100) * 10000>>, <<0, m>>)

\* round2(x): the values float(round(x, 2)) can give, in kopecks; two of
\* them at a tie.
round2(x) ==
    LET k == x[1] * 100 + (x[2] \div 10000)
        f == x[2] % 10000
    IN  IF f < 5000 THEN {k} ELSE IF f > 5000 THEN {k + 1} ELSE {k, k + 1}

\* round2(x / d) for a whole d >= 1.
round2Quotient(x, d) ==
    LET rub == x[1] \div d
        rest == (x[1] % d) * Million + x[2]
        m == rest \div d
        left == rest % d
        k == rub * 100 + (m \div 10000)
        f == m % 10000
    IN  IF f < 5000 THEN {k}
        ELSE IF f > 5000 \/ left > 0 THEN {k + 1}
        ELSE {k, k + 1}

\* A calculator that charges VAT on every component.
VatBaseOfAll(goods_rub, duty_rub, freight_rub, inland_rub, insurance_rub) ==
    Plus(Plus(Plus(goods_rub, duty_rub), Plus(freight_rub, inland_rub)), insurance_rub)

\* (goods_rub + duty_rub + freight_rub), the base of vat_rub.
VatBase(goods_rub, duty_rub, freight_rub, inland_rub, insurance_rub) ==
    Plus(Plus(goods_rub, duty_rub), freight_rub)

\* The body of calculate_ddp_async after the rate is known: the exact
\* amounts, then the set of DDPResults rounding can give.
calculate_ddp(req, rate) ==
    LET goods_cny == req.exw_or_fob_cny * req.qty
        goods_rub == Kopecks(goods_cny * rate)
        freight_rub == Plus(Kopecks(req.freight_total_rub), Kopecks(req.freight_total_cny * rate))
        inland_rub == Plus(Kopecks(req.inland_ru_rub), Kopecks(req.inland_cn_cny * rate))
        insurance_rub == Percent(goods_rub, req.insurance_pct)
        duty_rub == Percent(goods_rub, req.duty_rate_pct)
        vat_rub == Percent(VatBase(goods_rub, duty_rub, freight_rub, inland_rub, insurance_rub),
                           req.vat_rate_pct)
        total_rub == Plus(Plus(Plus(goods_rub, freight_rub), Plus(inland_rub, insurance_rub)),
                          Plus(duty_rub, vat_rub))
    IN  [fx_used_cny_rub : {rate * 10},
         goods_rub : round2(goods_rub),
         freight_rub : round2(freight_rub),
         inland_rub : round2(inland_rub),
         insurance_rub : round2(insurance_rub),
         duty_rub : round2(duty_rub),
         vat_rub : round2(vat_rub),
         total_rub : round2(total_rub),
         per_unit_rub : round2Quotient(total_rub, Max2(1, req.qty))]

\* The request bodies drawn.  Prices 10.0 and 1.3 yuan; a negative, a zero
\* and two positive quantities; freight of 2000 yuan and of 150.55 roubles;
\* inland legs of 0.5 yuan and 1000 roubles; an fx_source outside the
\* Literal of the model class ("ecb").
DdpRequests ==
    [exw_or_fob_cny : {100, 13}, qty : {-1, 0, 3, 100},
     duty_rate_pct : {0, 5}, vat_rate_pct : {13, 20},
     freight_total_cny : {0, 20000}, freight_total_rub : {0, 15055},
     inland_cn_cny : {0, 5}, inland_ru_rub : {0, 100000},
     insurance_pct : {0, 1},
     fx_source : {"cbr", "manual", "ecb"}, fx_cny_rub : {None, Some(125)}]

\* What pydantic admits as a DDPInput: fx_source is one of its Literal's
\* values; `qty: int` and the float fields carry no constraint.
DDPInput(req) == req.fx_source \in {"cbr", "manual"}

\* The cache file the resolver may find (a fresh 11.0 or none) and the
\* answers of the remote source (12.5, an HTTP error, an unreadable sheet).
DdpCaches == { NoFile, [exists |-> TRUE, mtime |-> 0, rate |-> Some(110)] }

DdpAnswers ==
    { [status |-> 200, cny |-> TRUE, nominal |-> 10, value |-> 1250],
      [status |-> 500, cny |-> FALSE, nominal |-> 1, value |-> 0],
      [status |-> 200, cny |-> FALSE, nominal |-> 1, value |-> 0] }

InitDdp ==
    /\ dReq \in DdpRequests
    /\ dPc = "received"
    /\ dRate = None
    /\ dResult = None
    /\ OrchIdle /\ FilterIdle /\ ScoreIdle /\ FxIdle /\ ParseIdle /\ ApiIdle

\* calc_ddp(req: DDPInput): the body does not validate and the request is
\* answered 422 before the handler runs.
DdpReject ==
    /\ dPc = "received"
    /\ ~DDPInput(dReq)
    /\ dPc' = "rejected"
    /\ UNCHANGED <<dReq, dRate, dResult>>
    /\ UNCHANGED <<orchVars, filterVars, scoreVars, fxVars, parseVars, apiVars>>

\* rate = await get_cny_rub_rate(req.fx_source, req.fx_cny_rub): the rate,
\* or the resolver's exception, which leaves calculate_ddp_async.
DdpResolve ==
    /\ dPc = "received"
    /\ DDPInput(dReq)
    /\ \E c \in DdpCaches, a \in DdpAnswers :
         LET called == get_cny_rub_rate(dReq.fx_source, dReq.fx_cny_rub, c, 0)
             got == fetch_cbr_cny_rub_rate(a)
             frame == IF called.pc = "fetching"
                      THEN ResumeAfterFetch([called EXCEPT !.response = Some(got.rate),
                                                           !.err = got.err], c, 0)[1]
                      ELSE called
         IN  IF frame.pc = "returned"
             THEN dPc' = "resolved" /\ dRate' = frame.ret
             ELSE dPc' = "failed" /\ UNCHANGED dRate
    /\ UNCHANGED <<dReq, dResult>>
    /\ UNCHANGED <<orchVars, filterVars, scoreVars, fxVars, parseVars, apiVars>>

\* Lines 13-38: the arithmetic and the DDPResult.
DdpCompute ==
    /\ dPc = "resolved"
    /\ \E res \in calculate_ddp(dReq, dRate[1]) : dResult' = Some(res)
    /\ dPc' = "done"
    /\ UNCHANGED <<dReq, dRate>>
    /\ UNCHANGED <<orchVars, filterVars, scoreVars, fxVars, parseVars, apiVars>>

NextDdp == DdpReject \/ DdpResolve \/ DdpCompute

SpecDdp == InitDdp /\ [][NextDdp]_vars

(***************************************************************************)
(* src/server/main.py: the two search endpoints, and the entry of          *)
(* search_1688_list / search_1688_stream up to the point where the run is  *)
(* offline or its semaphore exists (SpecApi).                              *)
(***************************************************************************)
\* concurrency: int = Query(3, ge=1, le=10)
ConcurrencyMin == 1

ConcurrencyMax == 10

\* pages: int = Query(1, ge=1, le=20)
PagesMin == 1

PagesMax == 20

MaxApiPages == 2

\* The two endpoints, and the two search functions called directly.
ApiRoutes == {"search_endpoint", "search_stream", "search_1688_list", "search_1688_stream"}

\* data/offline/snapshot.html: absent, an empty page, a page of two cards.
Fixtures == { None, Some(<<>>), Some(<< PlainAnchor("a"), FactoryAnchor("b") >>) }

\* The requests: concurrency below, at and above the limits of
\* search_endpoint, pages from 0.
ApiRequests ==
    [route : ApiRoutes,
     concurrency : {ConcurrencyMin - 2, ConcurrencyMin - 1, ConcurrencyMin,
                    ConcurrencyMax, ConcurrencyMax + 1},
     pages : 0..MaxApiPages,
     online : BOOLEAN, offline_demo : BOOLEAN,
     only_factories : BOOLEAN, audited_only : BOOLEAN,
     fixture : Fixtures, rules : RuleFiles]

\* The Query(..., ge=, le=) constraints of search_endpoint; search_stream
\* declares plain parameters and checks nothing.
Validates(req) ==
    req.route = "search_endpoint" =>
       /\ req.pages \in PagesMin..PagesMax
       /\ req.concurrency \in ConcurrencyMin..ConcurrencyMax

\* SearchParams(...) as the route builds it: search_stream passes
\* online=True whatever the request says.
ParamsOf(req) ==
    [pages |-> req.pages, concurrency |-> req.concurrency,
     only_factories |-> req.only_factories, audited_only |-> req.audited_only,
     moq_max |-> None, price_min |-> None, price_max |-> None,
     online |-> IF req.route = "search_stream" THEN TRUE ELSE req.online,
     offline_demo |-> req.offline_demo]

\* `params.offline_demo or not params.online`
IsOffline(q) == q.offline_demo \/ ~q.online

\* The two built-in example records of _offline_items, before
\* normalize_item: 源头工厂 塑料瓶 OEM ODM at ￥1.20-2.10, 起订量 500 个;
\* 贸易公司 批发 帽子 at 1.28 起, MOQ 1000.
SampleCards ==
    << [title |-> <<"yuantou_gongchang", "suliaoping", "OEM", "ODM">>,
        url |-> <<"detail", "123">>,
        price_text |-> <<"CNY", "1", ".", "2", "0", "-", "2", ".", "1", "0">>,
        moq_text |-> <<"qi", "ding", "liang", " ", "5", "0", "0", " ", "ge">>,
        tags |-> <<"yuantou_gongchang", "zhichi_OEM">>,
        years_active |-> Some(5)],
       [title |-> <<"maoyi", "gongsi", "pifa", "maozi">>,
        url |-> <<"detail", "456">>,
        price_text |-> <<"1", ".", "2", "8", " ", "qi">>,
        moq_text |-> <<"M", "O", "Q", " ", "1", "0", "0", "0">>,
        tags |-> <<"pifa">>,
        years_active |-> Some(2)] >>

\* _offline_items(): the example records when no snapshot exists, else
\* the cards of the snapshot; None when normalize_item raised.
offline_items(fixture, file) ==
    IF fixture = None THEN NormalizeAll(SampleCards, file)
    ELSE NormalizeAll(parse_search_html(fixture[1]), file)

InitApi ==
    /\ aReq \in ApiRequests
    /\ aPc = "received"
    /\ aParams = <<>>
    /\ aSem = 0
    /\ aFetches = 0
    /\ aOut = None
    /\ OrchIdle /\ FilterIdle /\ ScoreIdle /\ FxIdle /\ ParseIdle /\ DdpIdle

\* search_endpoint answers 422: a Query constraint is violated.
ApiReject ==
    /\ aPc = "received"
    /\ ~Validates(aReq)
    /\ aPc' = "rejected"
    /\ UNCHANGED <<aReq, aParams, aSem, aFetches, aOut>>
    /\ UNCHANGED <<orchVars, filterVars, scoreVars, fxVars, parseVars, ddpVars>>

\* The route builds SearchParams and calls the search function.
ApiAccept ==
    /\ aPc = "received"
    /\ Validates(aReq)
    /\ aParams' = ParamsOf(aReq)
    /\ aPc' = "accepted"
    /\ UNCHANGED <<aReq, aSem, aFetches, aOut>>
    /\ UNCHANGED <<orchVars, filterVars, scoreVars, fxVars, parseVars, ddpVars>>

\* The search function starts: the offline branch, or the online run with
\* asyncio.Semaphore(params.concurrency), which raises ValueError for a
\* negative value.
ApiEnter ==
    /\ aPc = "accepted"
    /\ IF IsOffline(aParams)
       THEN aPc' = "offline" /\ UNCHANGED aSem
       ELSE IF aParams.concurrency < 0
            THEN aPc' = "crashed" /\ UNCHANGED aSem
            ELSE aPc' = "online" /\ aSem' = aParams.concurrency
    /\ UNCHANGED <<aReq, aParams, aFetches, aOut>>
    /\ UNCHANGED <<orchVars, filterVars, scoreVars, fxVars, parseVars, ddpVars>>

\* The offline branch: _apply_filters(_offline_items(), params) is
\* returned or emitted; an exception of normalize_item leaves the call.
ApiOffline ==
    /\ aPc = "offline"
    /\ LET items == offline_items(aReq.fixture, aReq.rules) IN
         IF items = None
         THEN aPc' = "crashed" /\ UNCHANGED aOut
         ELSE aPc' = "done" /\ aOut' = Some(apply_filters(items[1], aParams))
    /\ UNCHANGED <<aReq, aParams, aSem, aFetches>>
    /\ UNCHANGED <<orchVars, filterVars, scoreVars, fxVars, parseVars, ddpVars>>

\* The online run: a page task takes a permit and calls fetch_page.  With
\* no permit in the semaphore no task ever gets there.
ApiFetch ==
    /\ aPc = "online"
    /\ aSem > 0
    /\ aFetches < NumPages(aParams)
    /\ aFetches' = aFetches + 1
    /\ UNCHANGED <<aReq, aPc, aParams, aSem, aOut>>
    /\ UNCHANGED <<orchVars, filterVars, scoreVars, fxVars, parseVars, ddpVars>>

NextApi == ApiReject \/ ApiAccept \/ ApiEnter \/ ApiOffline \/ ApiFetch

SpecApi == InitApi /\ [][NextApi]_vars

(***************************************************************************)
(* Claims about the orchestrator (specification Spec).                     *)
(***************************************************************************)
\* The number of times x occurs in the sequence s.
Count(s, x) == Cardinality({i \in 1..Len(s) : s[i] = x})

\* C1: in every reachable state of a batch or stream run, the number of
\* page fetches in flight (tasks that hold the semaphore) is at most
\* params.concurrency.
C1_InFlightBounded == Cardinality(InFlight) <= params.concurrency

\* A run with more pages than permits: every permit is taken and a task
\* is waiting for one.
C1_Witness ==
    /\ NumPages(params) > params.concurrency
    /\ Cardinality(InFlight) = params.concurrency
    /\ \E p \in PageIds : pc[p] = "created"

\* The records the run delivered: the batch result, or the item events.
Delivered == IF mode = "batch" THEN output ELSE events

\* C2: a failure inside the task of page k gives the empty list for page k
\* only: the run is never aborted, and once it ends every record of every
\* page that passes the filter has been delivered, as often as the pages
\* hold it.
C2_FailureIsolated ==
    /\ run # "failed"
    /\ run = "returned" =>
         \A p \in PageIds : \A i \in 1..Len(taskResult[p]) :
            LET r == taskResult[p][i] IN
            Keeps(r, params) =>
              Count(Delivered, r)
                = SeqSum([q \in 1..NumPages(params) |-> Count(taskResult[q], r)])

\* The records stream mode owes for the pages taken so far: per page, the
\* records that pass the filter, in the order parse_search_html gave them.
RECURSIVE InPageOrder(_)
InPageOrder(ps) ==
    IF ps = <<>> THEN <<>>
    ELSE FilterLoop(taskResult[Head(ps)], params) \o InPageOrder(Tail(ps))

\* C4: in stream mode the records of a page that pass the filter are
\* emitted in their within-page extraction order, whatever their scores
\* and prices.
C4_StreamKeepsPageOrder ==
    mode = "stream" => events \o emitting = InPageOrder(awaited)

\* The urls of the first n accepted anchors of a page, in document order.
FirstAccepted(html, n) ==
    LET acc == SelectSeq(html, LAMBDA a : "detail" \in Range(a.href) /\ a.text # <<>>)
    IN  [i \in 1..Min2(n, Len(acc)) |-> acc[i].href]

\* C8: each page contributes at most 5 records, those of its first 5
\* accepted anchors in document order; the batch result and the item
\* events of a stream hold at most 5 records per page.
C8_PageCap ==
    /\ \A p \in PageIds :
         /\ Len(taskResult[p]) <= 5
         /\ (fetched[p] # None /\ pc[p] # "raised") =>
              [i \in 1..Len(taskResult[p]) |-> taskResult[p][i].url]
                = FirstAccepted(fetched[p][1], 5)
    /\ Len(output) <= 5 * NumPages(params)
    /\ Len(events) <= 5 * NumPages(params)

\* A finished run that delivered 5 records of a page holding more than 5
\* accepted anchors.
C8_Witness ==
    /\ run = "returned"
    /\ Len(Delivered) >= 5
    /\ \E p \in PageIds :
         /\ fetched[p] # None
         /\ Len(SelectSeq(fetched[p][1], Accepted)) > 5
         /\ Len(taskResult[p]) = 5

(***************************************************************************)
(* Claims about the filter and rank stage (specification SpecFilter).      *)
(* The filter predicate is the one of the specification's section 4.5; a   *)
(* record with no price is compared as a record priced 0.                  *)
(***************************************************************************)
PriceLow(it) == IF it.price_min_cny = None THEN 0 ELSE it.price_min_cny[1]

\* (price_max_cny, else price_min_cny)
PriceTop(it) == IF it.price_max_cny # None THEN it.price_max_cny[1] ELSE PriceLow(it)

Satisfies(it, q) ==
    /\ q.only_factories => it.is_factory
    /\ q.audited_only => it.audited
    /\ q.moq_max = None \/ it.moq = None \/ it.moq[1] <= q.moq_max[1]
    /\ q.price_min = None \/ PriceLow(it) >= q.price_min[1]
    /\ q.price_max = None \/ PriceTop(it) <= q.price_max[1]

C5_DeliveredSatisfy ==
    fOp \in {"batch", "stream"} =>
      \A i \in 1..Len(fOut) : Satisfies(fOut[i], fQuery)

\* A query with an audit requirement and a price ceiling that let one
\* record through and kept another out.
C5_Witness ==
    /\ fOp \in {"batch", "stream"}
    /\ fQuery.audited_only /\ fQuery.price_max # None
    /\ fOut # <<>>
    /\ Len(fOut) < Len(fItems)

\* C6: _apply_filters drops a record only if it violates a criterion:
\* every record that satisfies the predicate is kept exactly once (as
\* often as the input holds it).
C6_DropsOnlyViolators ==
    fOp = "filtered" =>
      \A i \in 1..Len(fItems) :
         Satisfies(fItems[i], fQuery) => Count(fOut, fItems[i]) = Count(fItems, fItems[i])

\* C7: filtering is idempotent: _apply_filters of an already filtered
\* list returns that list, same records, same order.
C7_FilterIdempotent == fOp = "refiltered" => fOut = fOnce

\* A second application to a list the first one had changed and left
\* with two records.
C7_Witness ==
    /\ fOp = "refiltered"
    /\ fOnce # fItems
    /\ Len(fOnce) >= 2

(***************************************************************************)
(* Claims about the scorer (specification SpecScore).                      *)
(***************************************************************************)
\* C9: whatever the title, tags, years_active, audited flag and rule
\* table, a verdict of score_supplier has a confidence in [0, 1] and a
\* score in [0, 100].
C9_VerdictInRange ==
    (sVerdict # None /\ sVerdict[1].ok) =>
       /\ 0 <= sVerdict[1].confidence /\ sVerdict[1].confidence <= 1000
       /\ 0 <= sVerdict[1].score /\ sVerdict[1].score <= 100000

\* Verdicts at both ends: negative years under a confidence of 0, and a
\* sum above 1 that the clamp cut to 100.
C9_Witness ==
    /\ sVerdict # None /\ sVerdict[1].ok
    /\ sInput.years_active # None
    /\ \/ sInput.years_active[1] < 0 /\ sVerdict[1].confidence = 0 /\ sVerdict[1].score = 0
       \/ /\ sInput.years_active[1] > 0 /\ sInput.audited
          /\ sVerdict[1].confidence = 1000 /\ sVerdict[1].score = 100000

(***************************************************************************)
(* Claims about the FX resolver (specification SpecFx).                    *)
(***************************************************************************)
\* The cache slot holds an entry whose age is within the TTL of 3600 s.
HoldsFreshEntry == cache.exists /\ cache.rate # None /\ now - cache.mtime <= 3600

\* C10: with source = cbr, a call that finds a fresh entry makes no remote
\* call and returns the cached rate; a call that finds the entry expired
\* or missing makes exactly one remote call, and when that call gives a
\* rate the cache slot holds it and it is the value returned.
C10_CacheThenFetch ==
    [][\A r \in FxRequests :
         /\ (fx[r].pc = "idle" /\ fx'[r].pc # "idle" /\ fx'[r].source = "cbr") =>
              IF HoldsFreshEntry
              THEN fx'[r].pc = "returned" /\ fx'[r].calls = 0 /\ fx'[r].ret = cache.rate
              ELSE fx'[r].pc = "fetching" /\ fx'[r].calls = 1
         /\ (fx[r].pc = "fetching" /\ fx'[r].pc # "idle") => fx'[r].calls = 1
         /\ (fx[r].pc = "fetching" /\ fx'[r].pc = "returned") =>
              /\ fx'[r].ret = fx[r].response
              /\ cache' = [exists |-> TRUE, mtime |-> now, rate |-> fx[r].response]
      ]_vars

\* One request refreshed the slot with one remote call, and another was
\* then served from the slot, at the very age of the TTL, with none.
C10_Witness ==
    \E r1, r2 \in FxRequests :
       /\ r1 # r2
       /\ fx[r1].pc = "returned" /\ fx[r1].source = "cbr" /\ fx[r1].calls = 1
       /\ fx[r2].pc = "returned" /\ fx[r2].source = "cbr" /\ fx[r2].calls = 0
       /\ fx[r2].ret = fx[r1].ret
       /\ cache.rate = fx[r1].ret
       /\ now - cache.mtime = 3600
\* C11: a call with source = manual and no rate ends with the
\* configuration error (ValueError) without a remote call and without a
\* look-up or a write of the cache file; with a rate supplied it returns
\* that rate and leaves the cache file as it was.
C11_ManualBypassesCache ==
    [][\A r \in FxRequests :
         (fx[r].pc = "idle" /\ fx'[r].pc # "idle" /\ fx'[r].source = "manual") =>
            /\ fx'[r].calls = 0
            /\ fx'[r].reads = 0
            /\ cache' = cache
            /\ IF fx'[r].manual = None
               THEN fx'[r].pc = "error" /\ fx'[r].err = "ValueError" /\ fx'[r].ret = None
               ELSE fx'[r].pc = "returned" /\ fx'[r].ret = fx'[r].manual
      ]_vars

\* Over a fresh cache entry of another rate, one manual call failed for
\* want of a rate and one returned the rate it was given.
C11_Witness ==
    /\ HoldsFreshEntry
    /\ \E r1, r2 \in FxRequests :
         /\ fx[r1].pc = "error" /\ fx[r1].source = "manual" /\ fx[r1].manual = None
         /\ fx[r2].pc = "returned" /\ fx[r2].source = "manual"
         /\ fx[r2].ret = Some(1200) /\ cache.rate # fx[r2].ret

\* C12: when the remote answer cannot be fetched or parsed the request
\* fails: it ends with the error, returns no rate (no default, no stale
\* cache value) and leaves the cache file exactly as it was; a failed
\* request never holds a rate.
C12_FetchFailureIsHard ==
    [][\A r \in FxRequests :
         /\ (fx[r].pc = "fetching" /\ fx[r].response = Some(0) /\ fx'[r] # fx[r]) =>
              /\ fx'[r].pc = "error"
              /\ fx'[r].err \in {"HTTPStatusError", "RuntimeError"}
              /\ fx'[r].ret = None
              /\ cache' = cache
         /\ fx'[r].pc = "error" => fx'[r].ret = None
      ]_vars

\* A request failed on an unreadable answer while the cache file still
\* held an expired rate that could have been handed out.
C12_Witness ==
    /\ cache.exists /\ cache.rate # None /\ now - cache.mtime > 3600
    /\ \E r \in FxRequests :
         /\ fx[r].pc = "error" /\ fx[r].source = "cbr"
         /\ fx[r].calls = 1 /\ fx[r].err = "RuntimeError"

\* C13: classification never fails the pipeline: whatever the state of
\* the rule-table file, score_supplier gives a verdict for every card (no
\* page task ends with its exception) and the search run is not aborted.
C13_ClassificationNeverFails ==
    /\ \A p \in PageIds : pc[p] # "raised"
    /\ run # "failed"

\* The pages whose fetch failed.
FailedPages == {p \in PageIds : pc[p] \in {"done", "consumed"} /\ fetched[p] = None}

\* What page p contributes when the failed fetches are answered by h: its
\* own records if it was fetched, else the records of the page h[p].
Contribution(p, h) ==
    IF fetched[p] # None THEN taskResult[p]
    ELSE LET r == TaskBody(h[p], rulesFile) IN IF r = None THEN <<>> ELSE r[1]

RECURSIVE Collected(_, _)
Collected(ps, h) ==
    IF ps = <<>> THEN <<>> ELSE Contribution(Head(ps), h) \o Collected(Tail(ps), h)

RECURSIVE EmittedOf(_, _)
EmittedOf(ps, h) ==
    IF ps = <<>> THEN <<>>
    ELSE StreamPage(Contribution(Head(ps), h), params) \o EmittedOf(Tail(ps), h)

\* The records the run would deliver, in the same completion order, if
\* every failed fetch had succeeded with the page h gives.
IdealDelivery(h) ==
    IF mode = "batch" THEN BatchRank(Collected(awaited, h), params)
    ELSE EmittedOf(awaited, h)

\* C14: there is no retry: no page is fetched more than once, a finished
\* run has fetched each page number 1..max(1, pages) exactly once, and what
\* it delivered is contained (record by record, with multiplicity) in what
\* it would deliver if every failed fetch had succeeded, whatever those
\* pages hold.
C14_NoRetry ==
    /\ \A p \in PageIds : attempts[p] <= 1
    /\ run = "returned" =>
         /\ \A p \in 1..Max2(1, params.pages) : p \in DOMAIN attempts /\ attempts[p] = 1
         /\ Delivered # <<>> =>
              \A h \in [FailedPages -> Htmls] :
                 LET ideal == IdealDelivery(h) IN
                 \A r \in Range(Delivered) : Count(Delivered, r) <= Count(ideal, r)

\* A finished run of two pages: one fetch failed and was made once, the
\* other page's records were delivered.
C14_Witness ==
    /\ run = "returned"
    /\ Delivered # <<>>
    /\ \E p, q \in PageIds :
         /\ fetched[p] = None /\ attempts[p] = 1 /\ taskResult[p] = <<>>
         /\ fetched[q] # None /\ attempts[q] = 1 /\ taskResult[q] # <<>>

(***************************************************************************)
(* Claims about the endpoints and the offline mode (SpecApi), and about    *)
(* cancellation (Spec).                                                    *)
(***************************************************************************)
\* C15: every search request an endpoint accepts runs with a concurrency
\* cap between 1 and 10, so the semaphore of an online run has at least
\* one permit.
C15_ConcurrencyInRange ==
    (aReq.route \in {"search_endpoint", "search_stream"}
       /\ aPc \in {"accepted", "offline", "online", "crashed", "done"}) =>
       /\ aParams.concurrency \in 1..10
       /\ aPc = "online" => aSem >= 1

\* C16: when the request is cancelled while page tasks are in flight, no
\* record of a task still in flight is in the output, and every passing
\* record of every task that had completed is in the result.
C16_CancelKeepsCompleted ==
    run = "cancelled" =>
       \A p \in PageIds :
          /\ pc[p] = "fetching" => taskResult[p] = <<>>
          /\ pc[p] \in {"done", "consumed"} =>
               \A i \in 1..Len(taskResult[p]) :
                  Keeps(taskResult[p][i], params) =>
                     Count(Delivered, taskResult[p][i]) >= 1

\* The records the offline mode draws on: the snapshot's cards, or the two
\* examples, normalised under the built-in rule table.
OfflineSource ==
    offline_items(aReq.fixture, [kind |-> "missing", value |-> DEFAULT_RULES])[1]

\* C17: with offline_demo set or online false, search_1688_list and
\* search_1688_stream fetch nothing from the network, for every value of
\* the other parameters, and deliver the records of the snapshot page (of
\* the two examples when there is none): the call does not fail, every
\* such record that satisfies the query's filter is delivered as often as
\* the source holds it, and nothing else is.
C17_OfflineDelivers ==
    (aReq.route \in {"search_1688_list", "search_1688_stream"}
       /\ aPc \in {"offline", "crashed", "done"} /\ IsOffline(aParams)) =>
       /\ aFetches = 0
       /\ aPc # "crashed"
       /\ aPc = "done" =>
            /\ aOut # None
            /\ \A r \in Range(aOut[1]) : r \in Range(OfflineSource)
            /\ \A r \in Range(OfflineSource) :
                  Satisfies(r, aParams) => Count(aOut[1], r) = Count(OfflineSource, r)

(***************************************************************************)
(* Claims about the price bounds (SpecFilter, SpecParse).                  *)
(***************************************************************************)
\* C18: every record produced by normalize_item, and so every record
\* handed to the filter stage and returned or emitted by it, has
\* price_min_cny <= price_max_cny whenever both are present.
C18_PriceBoundsOrdered ==
    fOp \in {"filtered", "batch", "stream"} =>
       \A r \in Range(fItems) \cup Range(fOut) :
          (r.price_min_cny # None /\ r.price_max_cny # None) =>
             r.price_min_cny[1] <= r.price_max_cny[1]

\* C19: for a price string that is a range a-b or a~b with no negotiable
\* marker, parse_price_range_cn returns (a, b) as given, whether a < b,
\* a = b or a > b; the two numbers are never reordered.
C19_RangeAsGiven ==
    pOut # None => pOut[1] = <<Some(pInput.low), Some(pInput.high)>>

\* A reversed range with decimals and a thousands comma was parsed and
\* came back high number first.
C19_Witness ==
    /\ pOut # None
    /\ pInput.low > pInput.high
    /\ pInput.low > 100000 /\ pInput.high % 100 # 0
    /\ pOut[1][1] = Some(pInput.low) /\ pOut[1][2] = Some(pInput.high)

(***************************************************************************)
(* Claims about the landed-cost calculator (specification SpecDdp).        *)
(***************************************************************************)
\* k kopecks is the amount x rounded to two decimals: within half a kopeck.
IsRounded(k, x) ==
    LET d == (x[1] * 100 - k) * 10000 + x[2] IN -5000 <= d /\ d <= 5000

\* k kopecks is x / n rounded to two decimals.
IsRoundedQuotient(k, x, n) ==
    LET d == (x[1] * 100 - n * k) * 10000 + x[2] IN -5000 * n <= d /\ d <= 5000 * n

\* The worked example: unit price 10, qty 100, duty 5%, VAT 13%, freight
\* 2000 CNY, inland 0, insurance 0%, rate 12.5.
IsWorkedExample ==
    /\ dReq.exw_or_fob_cny = 100 /\ dReq.qty = 100
    /\ dReq.duty_rate_pct = 5 /\ dReq.vat_rate_pct = 13
    /\ dReq.freight_total_cny = 20000 /\ dReq.freight_total_rub = 0
    /\ dReq.inland_cn_cny = 0 /\ dReq.inland_ru_rub = 0
    /\ dReq.insurance_pct = 0
    /\ dRate = Some(125)

\* C20: for every valid input (quantity not negative) and resolved rate
\* the result is the reference arithmetic, each output rounded to two
\* decimals: goods = unit price x qty x rate; freight = freight_rub +
\* freight_cny x rate; inland = inland_rub + inland_cny x rate; insurance
\* = goods x insurance%; duty = goods x duty%; VAT = (goods + duty +
\* freight) x VAT%; total = the sum of the six; per-unit = total /
\* max(1, qty).  The worked example gives goods 12500.00, freight
\* 25000.00, duty 625.00, VAT 4956.25, total 43081.25, per-unit 430.81.
C20_LandedCost ==
    (dPc = "done" /\ dReq.qty >= 0) =>
       LET rate == dRate[1]
           res == dResult[1]
           goods == Kopecks(dReq.exw_or_fob_cny * dReq.qty * rate)
           freight == Plus(Kopecks(dReq.freight_total_rub),
                           Kopecks(dReq.freight_total_cny * rate))
           inland == Plus(Kopecks(dReq.inland_ru_rub), Kopecks(dReq.inland_cn_cny * rate))
           insurance == Percent(goods, dReq.insurance_pct)
           duty == Percent(goods, dReq.duty_rate_pct)
           vat == Percent(Plus(Plus(goods, duty), freight), dReq.vat_rate_pct)
           total == Plus(Plus(Plus(goods, freight), Plus(inland, insurance)), Plus(duty, vat))
       IN  /\ IsRounded(res.goods_rub, goods)
           /\ IsRounded(res.freight_rub, freight)
           /\ IsRounded(res.inland_rub, inland)
           /\ IsRounded(res.insurance_rub, insurance)
           /\ IsRounded(res.duty_rub, duty)
           /\ IsRounded(res.vat_rub, vat)
           /\ IsRounded(res.total_rub, total)
           /\ IsRoundedQuotient(res.per_unit_rub, total, Max2(1, dReq.qty))
           /\ IsWorkedExample =>
                /\ res.goods_rub = 1250000 /\ res.freight_rub = 2500000
                /\ res.inland_rub = 0 /\ res.insurance_rub = 0
                /\ res.duty_rub = 62500 /\ res.vat_rub = 495625
                /\ res.total_rub = 4308125 /\ res.per_unit_rub = 43081

\* The worked example was calculated at the rate fetched from the remote
\* source.
C20_Witness ==
    /\ dPc = "done"
    /\ dReq.fx_source = "cbr"
    /\ IsWorkedExample
    /\ dResult[1].total_rub = 4308125 /\ dResult[1].per_unit_rub = 43081

\* C21: a landed-cost request with invalid input, in particular a negative
\* quantity, is rejected before any computation and before FX resolution:
\* it never gets a rate and no result is produced for it.
C21_InvalidRejected ==
    (~DDPInput(dReq) \/ dReq.qty < 0) =>
       /\ dPc \in {"received", "rejected"}
       /\ dRate = None
       /\ dResult = None

(***************************************************************************)
(* Claims about the verdict of the scorer (specification SpecScore).       *)
(***************************************************************************)
\* The weights of the rules of a map whose phrase is in the text, summed.
RECURSIVE SumPresent(_, _)
SumPresent(map, text) ==
    IF map = <<>> THEN 0
    ELSE (IF Head(map).k \in Range(text) THEN Head(map).w ELSE 0)
           + SumPresent(Tail(map), text)

\* clamp((fit_sum + 1) / 2, 0, 1), in thousandths.
ClampedHalf(fit_sum) ==
    IF fit_sum + 1000 <= 0 THEN 0
    ELSE IF fit_sum + 1000 >= 2000 THEN 1000
    ELSE (fit_sum + 1000) \div 2

\* C22: for every verdict, the confidence is clamp((fit_sum + 1) / 2, 0, 1),
\* fit_sum being the sum of the weights of the positive and negative
\* phrases present in the title-plus-tags text, and is_factory is true
\* exactly when that confidence is at least the rule table's threshold
\* (0.6 when the table names none).
C22_FactoryIffThreshold ==
    (sVerdict # None /\ sVerdict[1].ok) =>
       LET text == sInput.title \o sInput.tags
           fit_sum == SumPresent(sInput.rules.positive, text)
                        + SumPresent(sInput.rules.negative, text)
           threshold == IF sInput.rules.threshold = None THEN 600
                        ELSE sInput.rules.threshold[1]
       IN  /\ sVerdict[1].confidence = ClampedHalf(fit_sum)
           /\ sVerdict[1].is_factory <=> (sVerdict[1].confidence >= threshold)

\* A positive and a negative phrase fired under the built-in table and
\* left the confidence exactly at the threshold of 0.6: a factory.
C22_Witness ==
    /\ sVerdict # None /\ sVerdict[1].ok
    /\ sInput.rules = DEFAULT_RULES
    /\ "zhichi_OEM" \in Range(sInput.title) /\ "pifa" \in Range(sInput.title)
    /\ sVerdict[1].confidence = 600
    /\ sVerdict[1].is_factory

\* The phrases of a rule map that are present in the text.
PresentIn(map, text) == {map[i].k : i \in {j \in 1..Len(map) : map[j].k \in Range(text)}}

\* C23: the evidence list has exactly one entry per lexical rule that
\* fired: its length is the number of positive and negative phrases present
\* in the title-plus-tags text, a positive phrase is recorded as "+phrase",
\* a negative one as the bare phrase, and no entry stands for an absent
\* phrase.
C23_EvidencePerFiredRule ==
    (sVerdict # None /\ sVerdict[1].ok) =>
       LET text == sInput.title \o sInput.tags
           pos == PresentIn(sInput.rules.positive, text)
           neg == PresentIn(sInput.rules.negative, text)
           evidence == sVerdict[1].evidence
       IN  /\ Len(evidence) = Cardinality(pos) + Cardinality(neg)
           /\ \A k \in pos : Count(evidence, <<"+", k>>) = 1
           /\ \A k \in neg : Count(evidence, <<"", k>>) = 1
           /\ \A i \in 1..Len(evidence) :
                  \/ evidence[i][1] = "+" /\ evidence[i][2] \in pos
                  \/ evidence[i][1] = "" /\ evidence[i][2] \in neg

\* One positive and two negative phrases fired, in the title and in the
\* tags, and seven rules of the built-in table did not.
C23_Witness ==
    /\ sVerdict # None /\ sVerdict[1].ok
    /\ sInput.rules = DEFAULT_RULES
    /\ sInput.title = <<"yuantou_gongchang", "maozi">>
    /\ sVerdict[1].evidence
         = << <<"+", "yuantou_gongchang">>, <<"", "pifa">>, <<"", "daili">> >>

\* C24: a negative or absent years_active is treated as 0 by the scorer:
\* for the same title, tags, audited flag and rule table the composite
\* score for years_active = None and for every negative years_active is the
\* score for years_active = 0.
C24_NegativeYearsAsZero ==
    (sVerdict # None /\ sVerdict[1].ok
       /\ (sInput.years_active = None \/ sInput.years_active[1] <= 0)) =>
       sVerdict[1].score
         = score_supplier(sInput.rules, sInput.title, sInput.tags, Some(0),
                          sInput.audited).score

(***************************************************************************)
(* Claims about ranking and the two delivery modes (specification Spec).   *)
(***************************************************************************)
\* The records of the pages p..NumPages, page by page in page order.
RECURSIVE FromPage(_)
FromPage(p) ==
    IF p > NumPages(params) THEN <<>> ELSE taskResult[p] \o FromPage(p + 1)

\* C25: batch ranking is deterministic: for fixed per-page fetch outcomes
\* the returned list is the same, in the same order, for every completion
\* order of the page tasks; so it is the list returned when the tasks
\* complete in page order, also when records of different pages have equal
\* score and equal or missing price.
C25_BatchDeterministic ==
    (mode = "batch" /\ run = "returned") =>
       output = BatchRank(FromPage(1), params)

(***************************************************************************)
(* Claims about concurrent FX resolutions (specification SpecFx).          *)
(***************************************************************************)
\* The request r gets its rate back from the remote source in this step.
ReturnsFetched(r) == fx[r].pc = "fetching" /\ fx'[r].pc = "returned"

\* C26: when resolutions with source = cbr run concurrently over an expired
\* or missing cache entry, each may fetch remotely; each returns the rate
\* it fetched itself and writes that rate to the cache slot, the slot
\* changes in no other way (so it holds the rate of whichever wrote last),
\* and once all of them have returned a fetched rate the slot holds the
\* rate of one of them, never a value none of them fetched.
C26_LastWriteWins ==
    [][/\ \A r \in FxRequests :
            ReturnsFetched(r) =>
               /\ fx'[r].ret = fx[r].response
               /\ cache'.exists /\ cache'.rate = fx[r].response /\ cache'.mtime = now
       /\ cache' # cache => \E r \in FxRequests : ReturnsFetched(r)
       /\ (\A r \in FxRequests : fx'[r].pc = "returned" /\ fx'[r].calls = 1) =>
             \E r \in FxRequests : cache'.exists /\ cache'.rate = fx'[r].ret
      ]_vars

\* Two requests were in flight at the same time (no time has passed and
\* each made its own remote call), got different rates, each returned its
\* own, and the slot holds one of the two.
C26_Witness ==
    /\ ticks = 0
    /\ \E r1, r2 \in FxRequests :
         /\ r1 # r2
         /\ fx[r1].pc = "returned" /\ fx[r1].calls = 1 /\ fx[r1].ret = fx[r1].response
         /\ fx[r2].pc = "returned" /\ fx[r2].calls = 1 /\ fx[r2].ret = fx[r2].response
         /\ fx[r1].ret # fx[r2].ret
         /\ cache.rate = fx[r2].ret

\* C27: for the same query and the same per-page fetch outcomes, stream
\* mode emits as item events the same multiset of records batch mode
\* returns: in either mode a finished run has delivered each record as
\* often as the filter keeps it from the records of all pages together
\* (filtering page by page loses and adds nothing), and a run that ended
\* with an exception has delivered nothing.
C27_StreamEqualsBatch ==
    /\ run = "returned" =>
         LET kept == FilterLoop(FromPage(1), params) IN
         \A r \in Range(FromPage(1)) \cup Range(Delivered) :
            Count(Delivered, r) = Count(kept, r)
    /\ run = "failed" => Delivered = <<>>

\* A stream over two pages that completed out of page order: both pages
\* had records emitted, and the filter kept some records back.
C27_Witness ==
    /\ mode = "stream" /\ run = "returned"
    /\ awaited = <<2, 1>>
    /\ \A p \in PageIds : \E i \in 1..Len(taskResult[p]) : Keeps(taskResult[p][i], params)
    /\ Len(events) >= 2
    /\ Len(events) < Len(FromPage(1))

\* What a stream owes for the pages ps: per page, in the order of ps, what
\* _apply_filters makes of the page's records.
RECURSIVE Blocks(_)
Blocks(ps) ==
    IF ps = <<>> THEN <<>>
    ELSE apply_filters(taskResult[Head(ps)], params) \o Blocks(Tail(ps))

\* The task of page p finishes in this step.
Finishes(p) == pc[p] = "fetching" /\ pc'[p] # "fetching"

\* C28: in stream mode the records of one page are emitted contiguously
\* and the pages appear in task completion order: a finished task queues
\* behind the tasks that finished before it, the stream takes a page only
\* when no record of the page before is left to emit and takes the one
\* that finished earliest, each item emitted is the next record of the
\* page taken last, and so the items are the passing records of the pages
\* taken, page after page.
C28_PagesContiguous ==
    /\ [](mode = "stream" => events \o emitting = Blocks(awaited))
    /\ [][mode = "stream" =>
            /\ \A p \in PageIds : Finishes(p) => completed' = Append(completed, p)
            /\ awaited' # awaited =>
                  /\ emitting = <<>>
                  /\ awaited' = Append(awaited, Head(completed))
                  /\ events' = events
            /\ events' # events =>
                  /\ emitting # <<>>
                  /\ events' = Append(events, Head(emitting))
                  /\ emitting' = Tail(emitting)
                  /\ awaited' = awaited
         ]_vars

\* A page with passing records has finished and waits while the records of
\* the page that finished before it are partly emitted, partly still to
\* come.
C28_Witness ==
    /\ mode = "stream" /\ run = "running"
    /\ awaited # <<>>
    /\ events # <<>> /\ emitting # <<>>
    /\ Len(events) < Len(apply_filters(taskResult[awaited[Len(awaited)]], params))
    /\ completed # <<>>
    /\ apply_filters(taskResult[Head(completed)], params) # <<>>

\* The records of the item events among evts, in order.
ItemsOf(evts) ==
    LET its == SelectSeq(evts, LAMBDA ev : ev[1] = "item") IN
    [i \in 1..Len(its) |-> its[i][2]]

\* C29: the event sequence of the stream operation starts with exactly one
\* status event "start", yielded before any page task runs; every item
\* event comes after it and the item events are the records the search
\* yields, in order; when the search finishes without error exactly one
\* status event "done" is emitted, last, with no item event after it, and
\* no "done" is emitted otherwise.
C29_StreamFraming ==
    mode = "stream" =>
       /\ sent = <<>> => \A p \in PageIds : pc[p] = "created"
       /\ sent # <<>> => sent[1] = <<"status", "start">>
       /\ Count(sent, <<"status", "start">>) <= 1
       /\ \A i \in 1..Len(sent) :
             /\ sent[i][1] = "item" => i > 1
             /\ sent[i] = <<"status", "done">> => i = Len(sent)
       /\ ItemsOf(sent) = events
       /\ run = "returned" =>
             sent[Len(sent)] = <<"status", "done">> /\ Count(sent, <<"status", "done">>) = 1
       /\ run # "returned" => Count(sent, <<"status", "done">>) = 0

\* A stream that ended regularly: "start", the records of two pages,
\* "done".
C29_Witness ==
    /\ mode = "stream" /\ run = "returned"
    /\ Len(awaited) = 2
    /\ Len(sent) >= 5
    /\ sent[1] = <<"status", "start">>
    /\ sent[2][1] = "item"
    /\ sent[Len(sent)] = <<"status", "done">>

(***************************************************************************)
(* Termination of an online run (specification SpecLive).                  *)
(***************************************************************************)
\* Every page task has taken its permit once and given it back.
AllPermitsBack ==
    /\ \A p \in PageIds : attempts[p] = 1 /\ pc[p] # "fetching"
    /\ sem = params.concurrency

\* The run has ended regularly: the batch result is returned or the stream
\* has ended, after every page task has completed and was taken.
EndedRegularly ==
    /\ run = "returned"
    /\ \A p \in PageIds : pc[p] = "consumed"
    /\ AllPermitsBack

\* C30: provided every page fetch eventually returns or fails (and
\* concurrency >= 1), every online run terminates: each page task
\* eventually acquires the semaphore and the permit is given back on
\* success and on failure alike, so that all permits are free in the end,
\* and unless the run is cancelled the batch result is returned (or the
\* stream ends), after all page tasks have completed.
C30_RunTerminates ==
    /\ [](run = "returned" => EndedRegularly)
    /\ <>[]AllPermitsBack
    /\ <>(run = "cancelled" \/ EndedRegularly)
====
